---------------------------- MODULE Spec2Model ----------------------------
(***************************************************************************)
(* A model of okfn_iati's activity converter: the extraction of an IATI    *)
(* activities document into table rows, the build of activities from the   *)
(* rows, the CSV validation engine and the converter's two public          *)
(* operations.                                                             *)
(*                                                                         *)
(* Text values (CSV cells, XML attribute values) are sequences of          *)
(* one-character strings, so that str.strip() and float() are computed and *)
(* not assumed.  The value None of Python is the model value NoneVal.      *)
(*                                                                         *)
(* The module holds several specifications over one set of variables; a    *)
(* specification leaves the variables of the other parts at their idle     *)
(* values.                                                                 *)
(***************************************************************************)
EXTENDS Integers, Sequences, FiniteSets, TLC

VARIABLES
    resIssues,      \* CsvValidationResult.issues of the result under test
    otherIssues,    \* CsvValidationResult.issues of a second result (merge's argument)
    resHadError,    \* history: an error-level issue was put into resIssues
    resMerged,      \* history: merge was called on the result under test
    otherHadError,  \* history: an error-level issue was put into otherIssues
    fileData,       \* CrossFileValidator.validate's file_data: table key -> rows
    crossIssues,    \* the issues of the result CrossFileValidator.validate returned
    crossPhase,     \* "edit" while the tables are written, "validated" after validate
    csvFile,        \* the CSV file given to BaseCsvValidator.validate: [exists, header, lines]
    rowIssues,      \* the issues of the result BaseCsvValidator.validate returned
    rowsPhase,      \* "edit" while the file is written, "validated" after validate
    xmlDoc,         \* the iati-activity elements of the input XML document, in order
    tables,         \* the CSV folder: table key -> rows as read back from the file
    built,          \* the Activity objects _build_activities_from_collections returned
    outDoc,         \* the iati-activity elements of the XML document that was generated
    pipePhase,      \* "doc", then "extracted" after xml_to_csv_folder, then "converted"
    fsCsvFolder,    \* what the csv_folder path is on disk: "absent", "file" or "dir"
    fsXmlOut,       \* what the xml_output path is on disk: "absent" or "present"
    latestErrors,   \* the converter's latest_errors
    latestWarnings, \* the converter's latest_warnings
    lastCall,       \* the last call of a conversion: its arguments and how it ended
    folderFiles,    \* the files in the csv_folder directory: file name -> content
    enumValue,      \* the value given to validate_enum: a string or None
    enumClass,      \* the name of the enum_class given to validate_enum
    enumResult      \* "none" before the call, then "ok" (None returned) or "error"

resultVars == <<resIssues, otherIssues, resHadError, resMerged, otherHadError>>

crossVars == <<fileData, crossIssues, crossPhase>>

rowsVars == <<csvFile, rowIssues, rowsPhase>>

pipeVars == <<xmlDoc, tables, built, outDoc, pipePhase>>

convVars == <<fsCsvFolder, fsXmlOut, latestErrors, latestWarnings, lastCall>>

folderVars == <<folderFiles>>

enumVars == <<enumValue, enumClass, enumResult>>

vars == <<resultVars, crossVars, rowsVars, pipeVars, convVars, folderVars, enumVars>>

(***************************************************************************)
(* Bounds of the model.                                                    *)
(***************************************************************************)
MaxIssues == 3

\* rows of activities.csv, and rows of the other tables together, given to
\* the cross-file validator
MaxActivityRows == 2

MaxChildRows == 2

\* rows of sectors.csv given to the percentage check
MaxSectorRows == 3

\* data lines of the CSV file given to a per-file validator
MaxCsvRows == 2

\* iati-activity elements of a document whose tri-state attributes vary
MaxTriActivities == 2

\* iati-activity elements, transaction elements and sector elements of a
\* document whose transactions vary
MaxTxActivities == 2

MaxTransactions == 2

MaxTxSectors == 2

\* iati-activity elements of a valid document that goes the round trip
MaxRoundActivities == 2

\* rows of activity_date.csv given to the cross-file validator
MaxDateRows == 2

\* characters of the string given to validate_enum
MaxCodeLen == 4

\* rows of activities.csv and of activity_date.csv of a folder that is built
MaxBatchActivities == 2

MaxBatchDates == 2

\* description elements of an activity and narrative elements of a description
MaxDescriptions == 2

MaxNarratives == 2

\* files put into the csv_folder directory before the conversions are called
MaxFolderFiles == 3

(***************************************************************************)
(* Text.                                                                   *)
(***************************************************************************)
NoneVal == <<"None">>

EmptyStr == <<>>

IsSpace(c) == c \in {" ", "\t"}

RECURSIVE LStrip(_)
LStrip(s) ==
    IF s = <<>> THEN <<>>
    ELSE IF IsSpace(Head(s)) THEN LStrip(Tail(s)) ELSE s

RECURSIVE RStrip(_)
RStrip(s) ==
    IF s = <<>> THEN <<>>
    ELSE IF IsSpace(s[Len(s)]) THEN RStrip(SubSeq(s, 1, Len(s) - 1)) ELSE s

\* str.strip()
Strip(s) == RStrip(LStrip(s))

(***************************************************************************)
(* IEEE-754 binary64 arithmetic on the values the percentage check meets.  *)
(* A double is the pair [h, r] that stands for the exact rational          *)
(*     (h * 2^59 + r) / (100 * 2^59):                                      *)
(* h hundredths plus r units of 2^-59 / 100.  Every double >= 2^-7 is a    *)
(* multiple of 2^-59, so the pair is exact; r stays small because the      *)
(* values are sums of parsed two-decimal numerals.  Rounding is to         *)
(* nearest, ties to even, as the hardware does it.                         *)
(***************************************************************************)
RECURSIVE Pow2(_)
Pow2(n) == IF n = 0 THEN 1 ELSE 2 * Pow2(n - 1)

RECURSIVE Pow2Mod100(_)
Pow2Mod100(n) == IF n = 0 THEN 1 ELSE (2 * Pow2Mod100(n - 1)) % 100

\* (a * b) % m without leaving 32 bits
RECURSIVE MulMod(_, _, _)
MulMod(a, b, m) ==
    IF b = 0 THEN 0
    ELSE (2 * MulMod(a, b \div 2, m) + (b % 2) * a) % m

\* the inverse of 25 modulo 2^k
RECURSIVE Inv25(_)
Inv25(k) ==
    IF k = 0 THEN 0
    ELSE LET i == Inv25(k - 1)
         IN  IF (25 * i) % Pow2(k) = 1 % Pow2(k) THEN i ELSE i + Pow2(k - 1)

\* 2^e <= value of [h, r], for e in -7..9
AtLeastPow2(h, r, e) ==
    LET t == 100 * Pow2(e + 7)
    IN  128 * h > t \/ (128 * h = t /\ r >= 0)

\* the exponent of the binade of a positive value: the largest e with 2^e <= value
Binade(h, r) ==
    LET es == {e \in -7..9 : AtLeastPow2(h, r, e)}
    IN  IF es = {} THEN -7 ELSE CHOOSE e \in es : \A f \in es : f <= e

FloatZero == [h |-> 0, r |-> 0]

\* the double nearest to h / 100 (float() of a numeral of h hundredths)
FloatOfHundredths(h) ==
    IF h = 0 THEN FloatZero
    ELSE LET g   == Binade(h, 0) + 7
             q   == ((h % 100) * Pow2Mod100(59 - g)) % 100
             rho == IF q < 50 THEN 0 - q ELSE 100 - q
         IN  [h |-> h, r |-> rho * Pow2(g)]

\* a + b on doubles: the exact sum rounded to the result's binade
FloatAdd(a, b) ==
    LET h == a.h + b.h
        r == a.r + b.r
    IN  IF h = 0 /\ r = 0 THEN FloatZero
        ELSE LET g    == Binade(h, r) + 7
                 m    == MulMod((r \div 4) % Pow2(g + 1), Inv25(g + 1), Pow2(g + 1))
                 low  == m % Pow2(g)
                 bit  == m \div Pow2(g)
                 half == IF g = 0 THEN 0 ELSE Pow2(g - 1)
                 d    == IF g = 0 THEN 0
                         ELSE IF low < half THEN 0 - low
                         ELSE IF low > half THEN Pow2(g) - low
                         ELSE IF bit = 0 THEN 0 - low ELSE Pow2(g) - low
             IN  [h |-> h, r |-> r + 100 * d]

\* the double 0.01 is (2^59 + TolExcess) / (100 * 2^59)
TolExcess == 12

\* abs(total - 100.0) > 0.01 on doubles; the subtraction is exact near 100
AbsDiffExceedsTol(total) ==
    LET dh == total.h - 10000
    IN  IF dh >= 2 \/ dh <= -2 THEN TRUE
        ELSE IF dh = 0 THEN FALSE
        ELSE IF dh = 1 THEN total.r > TolExcess
        ELSE total.r < 0 - TolExcess

(***************************************************************************)
(* float(str) on the numerals the model writes: digits with at most two    *)
(* fraction digits parse to a double, anything else raises ValueError.     *)
(***************************************************************************)
Digits == {"0", "1", "2", "3", "4", "5", "6", "7", "8", "9"}

DigitVal(c) ==
    CASE c = "0" -> 0 [] c = "1" -> 1 [] c = "2" -> 2 [] c = "3" -> 3
      [] c = "4" -> 4 [] c = "5" -> 5 [] c = "6" -> 6 [] c = "7" -> 7
      [] c = "8" -> 8 [] c = "9" -> 9

RECURSIVE DigitsVal(_)
DigitsVal(s) ==
    IF s = <<>> THEN 0
    ELSE 10 * DigitsVal(SubSeq(s, 1, Len(s) - 1)) + DigitVal(s[Len(s)])

AllDigits(s) == \A k \in 1..Len(s) : s[k] \in Digits

DotAt(s) == {k \in 1..Len(s) : s[k] = "."}

\* a numeral the model parses: digits, or digits "." one or two digits
IsNumeral(s) ==
    \/ s # <<>> /\ AllDigits(s)
    \/ \E k \in DotAt(s) :
          /\ k > 1 /\ Len(s) - k \in {1, 2}
          /\ AllDigits(SubSeq(s, 1, k - 1))
          /\ AllDigits(SubSeq(s, k + 1, Len(s)))

\* the hundredths a numeral denotes
Hundredths(s) ==
    IF DotAt(s) = {} THEN 100 * DigitsVal(s)
    ELSE LET k    == CHOOSE d \in DotAt(s) : TRUE
             frac == SubSeq(s, k + 1, Len(s))
         IN  100 * DigitsVal(SubSeq(s, 1, k - 1))
               + (IF Len(frac) = 1 THEN 10 * DigitsVal(frac) ELSE DigitsVal(frac))

\* float(s) raises ValueError
FloatRaises(s) == ~IsNumeral(s)

\* float(s)
Float(s) == FloatOfHundredths(Hundredths(s))

(***************************************************************************)
(* csv_validators/models.py: ValidationLevel, ErrorCode,                   *)
(* CsvValidationResult.                                                    *)
(***************************************************************************)
\* ValidationIssue: row_number = None and column_name = None of an issue
\* that names no row or no column (row numbers start at 2)
NoRowNumber == 0

NoColumnName == "None"

ERROR == "error"
WARNING == "warning"

ValidationLevel == {ERROR, WARNING}

SelectSeqLevel(issues, lvl) == SelectSeq(issues, LAMBDA i : i.level = lvl)

\* A mutation of is_valid: any issue, a warning too, makes the result invalid.
is_valid_any_issue(issues) == issues = <<>>

\* CsvValidationResult.is_valid
is_valid(issues) == ~ \E k \in 1..Len(issues) : issues[k].level = ERROR

\* CsvValidationResult.errors
errors(issues) == SelectSeqLevel(issues, ERROR)

\* CsvValidationResult.warnings
warnings(issues) == SelectSeqLevel(issues, WARNING)

\* CsvValidationResult.merge: self.issues.extend(other.issues)
merge(selfIssues, other) == selfIssues \o other

(***************************************************************************)
(* csv_validators/cross_file_validator.py.  file_data maps the key of each *)
(* table that was read to its rows; a row maps column names to cells.      *)
(***************************************************************************)
ORPHAN_REFERENCE == "orphan_reference"
PERCENTAGE_SUM == "percentage_sum"
REQUIRED_FIELD == "required_field"

\* row.get(col, '')
Get(row, col) == IF col \in DOMAIN row THEN row[col] ELSE EmptyStr

\* CrossFileValidator.validate: fk_keys
fk_keys ==
    << "participating_orgs", "sectors", "budgets", "transactions",
       "transaction_sectors", "locations", "documents", "results",
       "indicators", "indicator_periods", "activity_date",
       "contact_info", "conditions", "descriptions",
       "country_budget_items" >>

\* Of an issue's message the model keeps the value interpolated into it
\* (the identifier or reference the message names).

\* CrossFileValidator._get_filename
get_filename(csv_key) == <<csv_key, ".csv">>

\* CrossFileValidator._get_activity_ids
get_activity_ids(file_data) ==
    IF "activities" \notin DOMAIN file_data THEN {}
    ELSE LET rows == file_data["activities"]
         IN  {Strip(Get(rows[k], "activity_identifier")) : k \in 1..Len(rows)}
               \ {EmptyStr}

\* A mutation of the test: a row with an empty identifier is reported too.
IsOrphanActivityRowNoEmptyGuard(row, activity_ids) ==
    Strip(Get(row, "activity_identifier")) \notin activity_ids

\* the test of _check_fk_activity on one row
IsOrphanActivityRow(row, activity_ids) ==
    LET aid == Strip(Get(row, "activity_identifier"))
    IN  aid # EmptyStr /\ aid \notin activity_ids

\* CrossFileValidator._check_fk_activity: the issues it appends
RECURSIVE check_fk_activity(_, _, _, _)
check_fk_activity(rows, csv_key, activity_ids, n) ==
    IF n = 0 THEN <<>>
    ELSE check_fk_activity(rows, csv_key, activity_ids, n - 1) \o
         ( IF IsOrphanActivityRow(rows[n], activity_ids)
           THEN << [ level       |-> ERROR,
                     code        |-> ORPHAN_REFERENCE,
                     file_name   |-> get_filename(csv_key),
                     row_number  |-> n + 1,
                     column_name |-> "activity_identifier",
                     value       |-> Strip(Get(rows[n], "activity_identifier")),
                     message     |-> Strip(Get(rows[n], "activity_identifier")) ] >>
           ELSE <<>> )

\* the position of aid among the keys of sums, 0 when it is no key
SumsIndex(sums, aid) ==
    IF \E k \in 1..Len(sums) : sums[k].aid = aid
    THEN CHOOSE k \in 1..Len(sums) : sums[k].aid = aid
    ELSE 0

\* One row of the first loop of _check_sector_percentages.  sums and
\* has_pct are one sequence of [aid, total, has_pct] in the insertion order
\* of sums.  "sums[aid] += float(pct)" reads sums[aid] first, which makes the
\* key, then evaluates float(pct), which may raise.
SumsAfterRow(sums, row) ==
    LET aid == Strip(Get(row, "activity_identifier"))
        pct == Strip(Get(row, "percentage"))
    IN  IF aid = EmptyStr \/ pct = EmptyStr THEN sums
        ELSE LET k     == SumsIndex(sums, aid)
                 keyed == IF k = 0
                          THEN Append(sums, [aid |-> aid, total |-> FloatZero, has_pct |-> FALSE])
                          ELSE sums
                 j     == IF k = 0 THEN Len(keyed) ELSE k
             IN  IF FloatRaises(pct) THEN keyed
                 ELSE [keyed EXCEPT ![j] =
                          [aid     |-> aid,
                           total   |-> FloatAdd(keyed[j].total, Float(pct)),
                           has_pct |-> TRUE]]

RECURSIVE SectorSums(_, _)
SectorSums(rows, n) ==
    IF n = 0 THEN <<>> ELSE SumsAfterRow(SectorSums(rows, n - 1), rows[n])

\* the test of the second loop of _check_sector_percentages
WarnsPercentage(entry) == entry.has_pct /\ AbsDiffExceedsTol(entry.total)

\* CrossFileValidator._check_sector_percentages: the issues it appends
RECURSIVE PercentageIssues(_, _)
PercentageIssues(sums, n) ==
    IF n = 0 THEN <<>>
    ELSE PercentageIssues(sums, n - 1) \o
         ( IF WarnsPercentage(sums[n])
           THEN << [ level       |-> WARNING,
                     code        |-> PERCENTAGE_SUM,
                     file_name   |-> <<"sectors", ".csv">>,
                     row_number  |-> NoRowNumber,
                     column_name |-> "percentage",
                     value       |-> NoneVal,
                     message     |-> sums[n].aid ] >>
           ELSE <<>> )

check_sector_percentages(rows) ==
    LET sums == SectorSums(rows, Len(rows)) IN PercentageIssues(sums, Len(sums))

\* the non-empty stripped values of a column
RefSet(rows, col) ==
    {Strip(Get(rows[k], col)) : k \in 1..Len(rows)} \ {EmptyStr}

\* _check_indicator_result_fk and _check_period_indicator_fk: a child table
\* whose column col must name a key of the parent table
RECURSIVE check_ref_fk(_, _, _, _, _)
check_ref_fk(refs, child_rows, child_key, col, n) ==
    IF n = 0 THEN <<>>
    ELSE check_ref_fk(refs, child_rows, child_key, col, n - 1) \o
         ( LET ref == Strip(Get(child_rows[n], col))
           IN  IF ref # EmptyStr /\ refs # {} /\ ref \notin refs
               THEN << [ level       |-> ERROR,
                         code        |-> ORPHAN_REFERENCE,
                         file_name   |-> get_filename(child_key),
                         row_number  |-> n + 1,
                         column_name |-> col,
                         value       |-> ref,
                         message     |-> ref ] >>
               ELSE <<>> )

check_indicator_result_fk(results_rows, indicators_rows) ==
    check_ref_fk(RefSet(results_rows, "result_ref"), indicators_rows,
                 "indicators", "result_ref", Len(indicators_rows))

check_period_indicator_fk(indicators_rows, periods_rows) ==
    check_ref_fk(RefSet(indicators_rows, "indicator_ref"), periods_rows,
                 "indicator_periods", "indicator_ref", Len(periods_rows))

\* the FK loop of validate over fk_keys[1..n]
RECURSIVE FkIssues(_, _, _)
FkIssues(file_data, activity_ids, n) ==
    IF n = 0 THEN <<>>
    ELSE FkIssues(file_data, activity_ids, n - 1) \o
         ( IF fk_keys[n] \in DOMAIN file_data
           THEN check_fk_activity(file_data[fk_keys[n]], fk_keys[n], activity_ids,
                                  Len(file_data[fk_keys[n]]))
           ELSE <<>> )

\* CrossFileValidator.validate: result.issues
CrossValidate(file_data) ==
    FkIssues(file_data, get_activity_ids(file_data), Len(fk_keys))
    \o ( IF "sectors" \in DOMAIN file_data
         THEN check_sector_percentages(file_data["sectors"]) ELSE <<>> )
    \o ( IF "results" \in DOMAIN file_data /\ "indicators" \in DOMAIN file_data
         THEN check_indicator_result_fk(file_data["results"], file_data["indicators"])
         ELSE <<>> )
    \o ( IF "indicators" \in DOMAIN file_data /\ "indicator_periods" \in DOMAIN file_data
         THEN check_period_indicator_fk(file_data["indicators"], file_data["indicator_periods"])
         ELSE <<>> )

(***************************************************************************)
(* csv_validators/field_validators.py: validate_date.                      *)
(***************************************************************************)
DashAt(s) == {k \in 1..Len(s) : s[k] = "-"}

IsLeap(y) == (y % 4 = 0 /\ y % 100 # 0) \/ y % 400 = 0

DaysIn(y, m) ==
    IF m = 2 THEN (IF IsLeap(y) THEN 29 ELSE 28)
    ELSE IF m \in {4, 6, 9, 11} THEN 30 ELSE 31

\* the day field of strptime's %d: one or two digits, or a space and a digit
DayFieldOk(t) ==
    \/ Len(t) \in {1, 2} /\ AllDigits(t)
    \/ Len(t) = 2 /\ t[1] = " " /\ t[2] \in Digits

DayFieldVal(t) == IF t[1] = " " THEN DigitVal(t[2]) ELSE DigitsVal(t)

\* datetime.strptime(value, "%Y-%m-%d") succeeds
StrptimeYmdOk(s) ==
    /\ Cardinality(DashAt(s)) = 2
    /\ LET i  == CHOOSE k \in DashAt(s) : \A l \in DashAt(s) : k <= l
           j  == CHOOSE k \in DashAt(s) : \A l \in DashAt(s) : l <= k
           ys == SubSeq(s, 1, i - 1)
           ms == SubSeq(s, i + 1, j - 1)
           ds == SubSeq(s, j + 1, Len(s))
       IN  /\ Len(ys) = 4 /\ AllDigits(ys) /\ DigitsVal(ys) >= 1
           /\ Len(ms) \in {1, 2} /\ AllDigits(ms) /\ DigitsVal(ms) \in 1..12
           /\ ds # <<>> /\ DayFieldOk(ds)
           /\ DayFieldVal(ds) \in 1..DaysIn(DigitsVal(ys), DigitsVal(ms))

\* str(value).strip() == "" for a cell, None included
IsBlank(value) == value = NoneVal \/ Strip(value) = EmptyStr

\* validate_date: TRUE when it returns an error message
validate_date(value) ==
    IF IsBlank(value) THEN FALSE ELSE ~StrptimeYmdOk(Strip(value))

Range(f) == {f[k] : k \in DOMAIN f}

DigitChars == <<"0", "1", "2", "3", "4", "5", "6", "7", "8", "9">>

\* str(n) of a natural number
RECURSIVE IntStr(_)
IntStr(n) ==
    IF n < 10 THEN <<DigitChars[n + 1]>>
    ELSE IntStr(n \div 10) \o <<DigitChars[(n % 10) + 1]>>

\* str(member.value): the value of a member is an int (IntEnum) or a str
MemberValueStr(member) ==
    IF member.is_int THEN IntStr(member.int) ELSE member.str

\* valid_values of validate_enum for an enum class (its members in order)
valid_values(enum_class) ==
    [k \in 1..Len(enum_class) |-> MemberValueStr(enum_class[k])]

\* A mutation of validate_enum: the value is compared as it was given.
validate_enum_no_strip(value, enum_class) ==
    IF IsBlank(value) THEN FALSE
    ELSE value \notin Range(valid_values(enum_class))

\* validate_enum: TRUE when it returns an error message
validate_enum(value, enum_class) ==
    IF IsBlank(value) THEN FALSE
    ELSE Strip(value) \notin Range(valid_values(enum_class))

\* str.lower() on the letters the model writes
LowerChar(c) ==
    CASE c = "T" -> "t" [] c = "R" -> "r" [] c = "U" -> "u" [] c = "E" -> "e"
      [] c = "F" -> "f" [] c = "A" -> "a" [] c = "L" -> "l" [] c = "S" -> "s"
      [] OTHER -> c

Lower(s) == [k \in 1..Len(s) |-> LowerChar(s[k])]

\* validate_boolean_flag: TRUE when it returns an error message
validate_boolean_flag(value) ==
    IF IsBlank(value) THEN FALSE
    ELSE Lower(Strip(value)) \notin
             { <<"0">>, <<"1">>, <<"t", "r", "u", "e">>, <<"f", "a", "l", "s", "e">> }

INVALID_DATE == "invalid_date"
MISSING_COLUMN == "missing_column"
MISSING_FILE == "missing_file"
EMPTY_FILE == "empty_file"

\* a check function of a rule, by name: TRUE when it returns a message
RunValidator(fn, value) ==
    CASE fn = "validate_date" -> validate_date(value)

(***************************************************************************)
(* csv_validators/indicator_periods_validator.py and the table's columns.  *)
(***************************************************************************)
DateCheck == << [fn |-> "validate_date", code |-> INVALID_DATE] >>

IndicatorPeriodsRules ==
    << [column |-> "activity_identifier", required |-> TRUE, validators |-> <<>>],
       [column |-> "result_ref", required |-> TRUE, validators |-> <<>>],
       [column |-> "indicator_ref", required |-> TRUE, validators |-> <<>>],
       [column |-> "period_start", required |-> TRUE, validators |-> DateCheck],
       [column |-> "period_end", required |-> TRUE, validators |-> DateCheck] >>

IndicatorPeriodsColumns ==
    << "activity_identifier", "result_ref", "indicator_ref", "period_start",
       "period_end", "target_value", "target_comment", "actual_value",
       "actual_comment" >>

(***************************************************************************)
(* csv_validators/base.py: BaseCsvValidator.                               *)
(***************************************************************************)
IndexOf(seq, x) == CHOOSE k \in 1..Len(seq) : seq[k] = x

\* csv.DictReader: one row of a line under a header; a line shorter than
\* the header leaves None in the missing cells
DictRow(header, line) ==
    [c \in Range(header) |->
        IF IndexOf(header, c) <= Len(line) THEN line[IndexOf(header, c)] ELSE NoneVal]

\* BaseCsvValidator._read_csv
read_csv(file) == [k \in 1..Len(file.lines) |-> DictRow(file.header, file.lines[k])]

\* rules_map = {r.column: r for r in self.column_rules}: one rule per
\* column, the last one given, at the place of the column's first rule
RulesMap(rules) ==
    LET firsts == SelectSeq([k \in 1..Len(rules) |-> k],
                            LAMBDA k : \A l \in 1..(k - 1) : rules[l].column # rules[k].column)
        last(c) == CHOOSE k \in 1..Len(rules) :
                      /\ rules[k].column = c
                      /\ \A l \in (k + 1)..Len(rules) : rules[l].column # c
    IN  [k \in 1..Len(firsts) |-> rules[last(rules[firsts[k]].column)]]

Issue(lvl, code, file_name, row_number, column_name, value, message) ==
    [ level |-> lvl, code |-> code, file_name |-> file_name,
      row_number |-> row_number, column_name |-> column_name,
      value |-> value, message |-> message ]

\* the issues of the check functions of one rule on one non-blank cell
RECURSIVE ValidatorIssues(_, _, _, _, _)
ValidatorIssues(rule, value, file_name, row_idx, n) ==
    IF n = 0 THEN <<>>
    ELSE ValidatorIssues(rule, value, file_name, row_idx, n - 1) \o
         ( IF RunValidator(rule.validators[n].fn, Strip(value))
           THEN << Issue(ERROR, rule.validators[n].code, file_name, row_idx,
                         rule.column, Strip(value), Strip(value)) >>
           ELSE <<>> )

\* A mutation of the body of the loop over the rules: a blank cell of a
\* required column is reported only while the row has no issue yet.
RuleIssuesShortCircuit(rule, row, file_name, row_idx, before) ==
    LET value == Get(row, rule.column)
    IN  IF rule.required /\ IsBlank(value)
        THEN IF before = <<>>
             THEN << Issue(ERROR, REQUIRED_FIELD, file_name, row_idx,
                           rule.column, value, <<rule.column>>) >>
             ELSE <<>>
        ELSE IF ~IsBlank(value)
        THEN ValidatorIssues(rule, value, file_name, row_idx, Len(rule.validators))
        ELSE <<>>

\* the body of the loop over the rules, for one rule and one row; before
\* holds the issues the row has so far
RuleIssues(rule, row, file_name, row_idx, before) ==
    LET value == Get(row, rule.column)
    IN  IF rule.required /\ IsBlank(value)
        THEN << Issue(ERROR, REQUIRED_FIELD, file_name, row_idx,
                      rule.column, value, <<rule.column>>) >>
        ELSE IF ~IsBlank(value)
        THEN ValidatorIssues(rule, value, file_name, row_idx, Len(rule.validators))
        ELSE <<>>

RECURSIVE RowIssues(_, _, _, _, _)
RowIssues(rules, row, file_name, row_idx, n) ==
    IF n = 0 THEN <<>>
    ELSE LET before == RowIssues(rules, row, file_name, row_idx, n - 1)
         IN  before \o RuleIssues(rules[n], row, file_name, row_idx, before)

RECURSIVE RowsIssues(_, _, _, _)
RowsIssues(rules, rows, file_name, n) ==
    IF n = 0 THEN <<>>
    ELSE RowsIssues(rules, rows, file_name, n - 1)
         \o RowIssues(rules, rows[n], file_name, n + 1, Len(rules))

\* BaseCsvValidator._check_columns
RECURSIVE check_columns(_, _, _, _)
check_columns(row, expected_columns, file_name, n) ==
    IF n = 0 THEN <<>>
    ELSE check_columns(row, expected_columns, file_name, n - 1) \o
         ( IF expected_columns[n] \notin DOMAIN row
           THEN << Issue(WARNING, MISSING_COLUMN, file_name, NoRowNumber,
                         expected_columns[n], NoneVal, <<expected_columns[n]>>) >>
           ELSE <<>> )

\* BaseCsvValidator.validate of a file that can be read (validate_custom
\* is not overridden by any validator): result.issues
validate(file, file_name, rules, expected_columns) ==
    IF ~file.exists
    THEN << Issue(ERROR, MISSING_FILE, file_name, NoRowNumber, NoColumnName, NoneVal, file_name) >>
    ELSE LET rows == read_csv(file)
         IN  IF Len(rows) = 0
             THEN << Issue(WARNING, EMPTY_FILE, file_name, NoRowNumber, NoColumnName, NoneVal, file_name) >>
             ELSE check_columns(rows[1], expected_columns, file_name, Len(expected_columns))
                  \o RowsIssues(RulesMap(rules), rows, file_name, Len(rows))

(***************************************************************************)
(* activities/process_xml/extractors.py.  An XML attribute is NoneVal when *)
(* the element does not carry it.  An iati-activity element is a record    *)
(*   [ident, humanitarian, lang, title, reporting_org, transactions]:      *)
(* ident is the text of iati-identifier (NoneVal without the element),     *)
(* title the narratives [text, lang] of title, reporting_org the           *)
(* reporting-org element [secondary_reporter], and a transaction is        *)
(* [ref, type, humanitarian, sectors] with sectors [code, vocabulary].     *)
(* Every document the model writes has a reporting-org and gives every     *)
(* transaction a transaction-type.                                         *)
(***************************************************************************)
PyTrue == <<"True">>

PyFalse == <<"False">>

\* element.get(name, default)
AttrGet(attr, default) == IF attr = NoneVal THEN default ELSE attr

\* get_text_content; html.unescape changes no text without "&", and the
\* model writes none
get_text_content(text) ==
    IF text = NoneVal \/ text = EmptyStr THEN EmptyStr ELSE text

get_activity_identifier(activity_elem) == get_text_content(activity_elem.ident)

extract_main_activity_data(activity_elem, activity_id) ==
    [ activity_identifier |-> activity_id,
      humanitarian |-> AttrGet(activity_elem.humanitarian, EmptyStr),
      xml_lang |-> AttrGet(activity_elem.lang, <<"e", "n">>),
      title |-> IF activity_elem.title = <<>> THEN EmptyStr
                ELSE get_text_content(activity_elem.title[1].text),
      title_lang |-> IF activity_elem.title = <<>> THEN EmptyStr
                     ELSE AttrGet(activity_elem.title[1].lang, EmptyStr),
      reporting_org_secondary_reporter |->
          AttrGet(activity_elem.reporting_org.secondary_reporter, EmptyStr) ]

extract_transaction_data(trans_elem, activity_id) ==
    [ activity_identifier |-> activity_id,
      transaction_ref |-> AttrGet(trans_elem.ref, EmptyStr),
      humanitarian |-> AttrGet(trans_elem.humanitarian, EmptyStr),
      transaction_type |-> trans_elem.type ]

extract_transaction_sector_data(sector_elem, activity_id, transaction_ref, transaction_type) ==
    [ activity_identifier |-> activity_id,
      transaction_ref |-> transaction_ref,
      transaction_type |-> transaction_type,
      sector_code |-> AttrGet(sector_elem.code, EmptyStr),
      vocabulary |-> AttrGet(sector_elem.vocabulary, <<"1">>) ]

(***************************************************************************)
(* activities/base.py: _extract_activity_to_collections.  The state of the *)
(* loops is acc = [transactions, transaction_sectors, seen].               *)
(***************************************************************************)
\* data_collections before the first activity element
EmptyTables ==
    [activities |-> <<>>, transactions |-> <<>>, transaction_sectors |-> <<>>]

sector_key(sector_data) ==
    << sector_data.activity_identifier, sector_data.transaction_ref,
       sector_data.transaction_type, sector_data.sector_code, sector_data.vocabulary >>

\* the loop over the sector elements 1..n of one transaction
RECURSIVE ExtractSectors(_, _, _, _)
ExtractSectors(acc, trans_elem, trans_data, n) ==
    IF n = 0 THEN acc
    ELSE LET prev == ExtractSectors(acc, trans_elem, trans_data, n - 1)
             sector_data == extract_transaction_sector_data(
                                trans_elem.sectors[n], trans_data.activity_identifier,
                                trans_data.transaction_ref, trans_data.transaction_type)
         IN  IF sector_key(sector_data) \notin prev.seen
             THEN [prev EXCEPT !.seen = @ \cup {sector_key(sector_data)},
                               !.transaction_sectors = Append(@, sector_data)]
             ELSE prev

\* the loop over the transaction elements 1..n of one activity
RECURSIVE ExtractTransactions(_, _, _, _)
ExtractTransactions(acc, activity_elem, activity_id, n) ==
    IF n = 0 THEN acc
    ELSE LET prev == ExtractTransactions(acc, activity_elem, activity_id, n - 1)
             trans_elem == activity_elem.transactions[n]
             trans_data == extract_transaction_data(trans_elem, activity_id)
         IN  ExtractSectors([prev EXCEPT !.transactions = Append(@, trans_data)],
                            trans_elem, trans_data, Len(trans_elem.sectors))

\* _extract_activity_to_collections: seen_transaction_sectors starts empty
\* for every activity element
extract_activity_to_collections(activity_elem, data_collections) ==
    LET activity_id == get_activity_identifier(activity_elem)
        acc == ExtractTransactions(
                   [ transactions |-> data_collections.transactions,
                     transaction_sectors |-> data_collections.transaction_sectors,
                     seen |-> {} ],
                   activity_elem, activity_id, Len(activity_elem.transactions))
    IN  [ activities |-> Append(data_collections.activities,
                                extract_main_activity_data(activity_elem, activity_id)),
          transactions |-> acc.transactions,
          transaction_sectors |-> acc.transaction_sectors ]

\* the loop of xml_to_csv_folder over the iati-activity elements 1..n
RECURSIVE ExtractAll(_, _)
ExtractAll(doc, n) ==
    IF n = 0 THEN EmptyTables
    ELSE extract_activity_to_collections(doc[n], ExtractAll(doc, n - 1))

\* _write_csv_file then _read_csv_file on one cell: None is written as the
\* empty text, text is read back as written
CsvCell(value) == IF value = NoneVal THEN EmptyStr ELSE value

CsvRows(rows) ==
    [k \in 1..Len(rows) |-> [c \in DOMAIN rows[k] |-> CsvCell(rows[k][c])]]

CsvFolder(data_collections) ==
    [key \in DOMAIN data_collections |-> CsvRows(data_collections[key])]

(***************************************************************************)
(* activities/process_csv/builders.py and activities/base.py: the build    *)
(* of Activity objects from the rows of the tables.  The Python values     *)
(* True and False are PyTrue and PyFalse.                                  *)
(***************************************************************************)
\* bool(value) of a text or None
Truthy(value) == value # NoneVal /\ value # EmptyStr

\* build_transaction: the parse of the humanitarian cell
transaction_humanitarian(humanitarian_value) ==
    IF humanitarian_value = EmptyStr THEN NoneVal
    ELSE IF humanitarian_value = <<"0">> THEN PyFalse
    ELSE PyTrue

\* build_transaction
build_transaction(trans_data, trans_sectors) ==
    [ type |-> trans_data.transaction_type,
      transaction_ref |-> trans_data.transaction_ref,
      humanitarian |-> transaction_humanitarian(trans_data.humanitarian),
      sectors |-> [k \in 1..Len(trans_sectors) |->
                      [ code |-> trans_sectors[k].sector_code,
                        vocabulary |-> trans_sectors[k].vocabulary ]] ]

\* _build_activity_from_data: the parse of the humanitarian cell
activity_humanitarian(humanitarian_value) ==
    IF humanitarian_value = EmptyStr THEN NoneVal
    ELSE IF humanitarian_value = <<"0">> THEN PyFalse
    ELSE PyTrue

\* A mutation of the parse of the secondary-reporter cell: an empty cell is
\* taken for "0".
secondary_reporter_empty_false(cell) ==
    IF cell = <<"1">> THEN PyTrue ELSE PyFalse

\* _build_activity_from_data: the parse of the secondary-reporter cell
secondary_reporter(cell) ==
    IF cell = <<"1">> THEN PyTrue
    ELSE IF cell = <<"0">> THEN PyFalse
    ELSE NoneVal

\* _build_activity_from_data: create_narrative
create_narrative(text, lang_value) ==
    [ text |-> text, lang |-> IF Truthy(lang_value) THEN lang_value ELSE NoneVal ]

\* _build_activity_from_data: the rows 1..n of transaction_sectors that
\* belong to one transaction, one row per (sector_code, vocabulary)
RECURSIVE transaction_sectors_data(_, _, _, _, _)
transaction_sectors_data(rows, trans_ref, trans_type, iati_identifier, n) ==
    IF n = 0 THEN <<>>
    ELSE LET prev == transaction_sectors_data(rows, trans_ref, trans_type,
                                              iati_identifier, n - 1)
             row  == rows[n]
         IN  IF /\ row.transaction_ref = trans_ref
                /\ row.transaction_type = trans_type
                /\ row.activity_identifier = iati_identifier
                /\ ~ \E k \in 1..Len(prev) :
                       /\ prev[k].sector_code = row.sector_code
                       /\ prev[k].vocabulary = row.vocabulary
             THEN Append(prev, row)
             ELSE prev

\* _build_activity_from_data; data = [main, transactions, transaction_sectors]
build_activity_from_data(data) ==
    LET main_data == data.main
    IN  [ iati_identifier |-> main_data.activity_identifier,
          reporting_org |->
              [ secondary_reporter |->
                    secondary_reporter(main_data.reporting_org_secondary_reporter) ],
          title |-> IF Truthy(main_data.title)
                    THEN << create_narrative(main_data.title, main_data.title_lang) >>
                    ELSE <<>>,
          humanitarian |-> activity_humanitarian(main_data.humanitarian),
          xml_lang |-> main_data.xml_lang,
          transactions |->
              [k \in 1..Len(data.transactions) |->
                  build_transaction(
                      data.transactions[k],
                      transaction_sectors_data(
                          data.transaction_sectors,
                          data.transactions[k].transaction_ref,
                          data.transactions[k].transaction_type,
                          main_data.activity_identifier,
                          Len(data.transaction_sectors)))] ]

\* the keys of activity_data_map after the activities rows 1..n, in the
\* order of their first row; a row with an empty identifier is skipped
RECURSIVE activity_data_keys(_, _)
activity_data_keys(rows, n) ==
    IF n = 0 THEN <<>>
    ELSE LET prev == activity_data_keys(rows, n - 1)
             aid  == rows[n].activity_identifier
         IN  IF ~Truthy(aid) \/ \E k \in 1..Len(prev) : prev[k] = aid
             THEN prev ELSE Append(prev, aid)

\* activity_data_map[activity_id]: 'main' is the last activities row with
\* the identifier, and each table gives its rows with the identifier
activity_data(data_collections, activity_id) ==
    LET rows == data_collections.activities
        last == CHOOSE k \in 1..Len(rows) :
                   /\ rows[k].activity_identifier = activity_id
                   /\ \A l \in (k + 1)..Len(rows) : rows[l].activity_identifier # activity_id
        of(table) == SelectSeq(table, LAMBDA r : r.activity_identifier = activity_id)
    IN  [ main |-> rows[last],
          transactions |-> of(data_collections.transactions),
          transaction_sectors |-> of(data_collections.transaction_sectors) ]

\* _build_activities_from_collections
build_activities_from_collections(data_collections) ==
    LET keys == activity_data_keys(data_collections.activities,
                                   Len(data_collections.activities))
    IN  [k \in 1..Len(keys) |->
            build_activity_from_data(activity_data(data_collections, keys[k]))]

\* the values of the members of ActivityDateType (PLANNED_START,
\* ACTUAL_START, PLANNED_END, ACTUAL_END)
ActivityDateTypeValues == { <<"1">>, <<"2">>, <<"3">>, <<"4">> }

\* build_activity_date: TRUE when ActivityDateType(date_data['type']) raises
\* ValueError
build_activity_date_raises(date_data) == date_data.type \notin ActivityDateTypeValues

\* _build_activity_from_data raises for the activity: one of its
\* activity_date rows cannot be built
build_activity_raises(data_collections, activity_id) ==
    \E k \in 1..Len(data_collections.activity_date) :
        /\ data_collections.activity_date[k].activity_identifier = activity_id
        /\ build_activity_date_raises(data_collections.activity_date[k])

\* A mutation of the body of the loop "Build activities": the exception of
\* an activity is swallowed and the loop goes on with the next activity.
build_step_skip(prev, data_collections, activity_id) ==
    IF prev.raised THEN prev
    ELSE IF build_activity_raises(data_collections, activity_id)
    THEN prev
    ELSE [prev EXCEPT !.activities =
             Append(@, build_activity_from_data(activity_data(data_collections, activity_id)))]

\* the body of the loop "Build activities" of
\* _build_activities_from_collections: prev = [raised, activity_id,
\* activities] is the state of the loop, activities the local list; the
\* exception of an activity is printed and raised again
build_step(prev, data_collections, activity_id) ==
    IF prev.raised THEN prev
    ELSE IF build_activity_raises(data_collections, activity_id)
    THEN [prev EXCEPT !.raised = TRUE, !.activity_id = activity_id]
    ELSE [prev EXCEPT !.activities =
             Append(@, build_activity_from_data(activity_data(data_collections, activity_id)))]

RECURSIVE build_loop(_, _, _)
build_loop(data_collections, keys, n) ==
    IF n = 0 THEN [raised |-> FALSE, activity_id |-> NoneVal, activities |-> <<>>]
    ELSE build_step(build_loop(data_collections, keys, n - 1), data_collections, keys[n])

\* _build_activities_from_collections on tables with activity_date rows:
\* [raised, activity_id, activities]; when raised, no list is returned
build_activities_or_raise(data_collections) ==
    LET keys == activity_data_keys(data_collections.activities,
                                   Len(data_collections.activities))
        loop == build_loop(data_collections, keys, Len(keys))
    IN  IF loop.raised THEN [loop EXCEPT !.activities = <<>>] ELSE loop

(***************************************************************************)
(* The description blocks of an activity.  A description element is        *)
(* [type, narratives] with type NoneVal without the attribute and the      *)
(* narratives [text, lang]; a built block has the same shape, type NoneVal *)
(* standing for a dict without the key "type".                             *)
(***************************************************************************)
\* the narrative_elem None that stands in for a description without narrative
NoNarrative == [text |-> NoneVal, lang |-> NoneVal]

\* A mutation of extract_description_data: every row gets the sequence "1".
extract_description_data_no_index(desc_elem, activity_id, description_index, narrative_elem, narrative_index) ==
    [ activity_identifier |-> activity_id,
      description_type |-> AttrGet(desc_elem.type, EmptyStr),
      description_sequence |-> IntStr(1),
      narrative_sequence |-> IntStr(narrative_index),
      narrative |-> IF narrative_elem = NoNarrative THEN EmptyStr
                    ELSE get_text_content(narrative_elem.text),
      narrative_lang |-> IF narrative_elem = NoNarrative THEN EmptyStr
                         ELSE AttrGet(narrative_elem.lang, EmptyStr) ]

\* extract_description_data
extract_description_data(desc_elem, activity_id, description_index, narrative_elem, narrative_index) ==
    [ activity_identifier |-> activity_id,
      description_type |-> AttrGet(desc_elem.type, EmptyStr),
      description_sequence |-> IntStr(description_index),
      narrative_sequence |-> IntStr(narrative_index),
      narrative |-> IF narrative_elem = NoNarrative THEN EmptyStr
                    ELSE get_text_content(narrative_elem.text),
      narrative_lang |-> IF narrative_elem = NoNarrative THEN EmptyStr
                         ELSE AttrGet(narrative_elem.lang, EmptyStr) ]

\* _extract_activity_to_collections, "Extract descriptions": the rows of
\* the description elements 1..n of the activity
RECURSIVE extract_descriptions(_, _, _)
extract_descriptions(descs, activity_id, n) ==
    IF n = 0 THEN <<>>
    ELSE LET narratives == IF descs[n].narratives = <<>> THEN << NoNarrative >>
                           ELSE descs[n].narratives
         IN  extract_descriptions(descs, activity_id, n - 1) \o
             [ k \in 1..Len(narratives) |->
                 extract_description_data(descs[n], activity_id, n, narratives[k], k) ]

\* safe_int of a cell: int(value), 0 when int raises
safe_int(value) ==
    IF value # NoneVal /\ value # EmptyStr /\ AllDigits(value) THEN DigitsVal(value) ELSE 0

\* the sort key of build_descriptions_from_rows compares a before or equal b
DescriptionRowLE(a, b) ==
    \/ safe_int(a.description_sequence) < safe_int(b.description_sequence)
    \/ /\ safe_int(a.description_sequence) = safe_int(b.description_sequence)
       /\ safe_int(a.narrative_sequence) <= safe_int(b.narrative_sequence)

\* sorted(rows, key=...) of build_descriptions_from_rows: stable
RECURSIVE sorted_description_rows(_, _)
sorted_description_rows(rows, n) ==
    IF n = 0 THEN <<>>
    ELSE LET prev == sorted_description_rows(rows, n - 1)
             pos  == Cardinality({k \in 1..Len(prev) : DescriptionRowLE(prev[k], rows[n])})
         IN  SubSeq(prev, 1, pos) \o << rows[n] >> \o SubSeq(prev, pos + 1, Len(prev))

\* grouped after the sorted rows 1..n: the entries [seq, type, narratives]
\* in the order in which their keys were set
RECURSIVE grouped_descriptions(_, _)
grouped_descriptions(rows, n) ==
    IF n = 0 THEN <<>>
    ELSE LET prev == grouped_descriptions(rows, n - 1)
             row  == rows[n]
             seq  == IF Truthy(row.description_sequence) THEN row.description_sequence
                     ELSE IntStr(Len(prev) + 1)
             narrative == [ text |-> row.narrative,
                            lang |-> IF Truthy(row.narrative_lang) THEN row.narrative_lang
                                     ELSE NoneVal ]
         IN  IF \E k \in 1..Len(prev) : prev[k].seq = seq
             THEN [ k \in 1..Len(prev) |->
                      IF prev[k].seq = seq
                      THEN [prev[k] EXCEPT !.narratives = Append(@, narrative)]
                      ELSE prev[k] ]
             ELSE Append(prev, [ seq |-> seq, type |-> row.description_type,
                                 narratives |-> << narrative >> ])

\* sorted(grouped.keys(), key=safe_int): stable
RECURSIVE sorted_groups(_, _)
sorted_groups(entries, n) ==
    IF n = 0 THEN <<>>
    ELSE LET prev == sorted_groups(entries, n - 1)
             pos  == Cardinality({k \in 1..Len(prev) :
                                    safe_int(prev[k].seq) <= safe_int(entries[n].seq)})
         IN  SubSeq(prev, 1, pos) \o << entries[n] >> \o SubSeq(prev, pos + 1, Len(prev))

\* build_descriptions_from_rows
build_descriptions_from_rows(rows) ==
    LET sorted  == sorted_description_rows(rows, Len(rows))
        grouped == grouped_descriptions(sorted, Len(sorted))
        entries == sorted_groups(grouped, Len(grouped))
    IN  [ k \in 1..Len(entries) |->
            [ narratives |-> IF entries[k].narratives = <<>>
                             THEN << [text |-> EmptyStr, lang |-> NoneVal] >>
                             ELSE entries[k].narratives,
              type |-> IF Truthy(entries[k].type) THEN entries[k].type ELSE NoneVal ] ]

(***************************************************************************)
(* xml_generator.py: of the element generated for an activity the model    *)
(* keeps [ident, lang, humanitarian, title, transactions].                 *)
(***************************************************************************)
\* IatiXmlGenerator._create_narrative_elements
create_narrative_elements(narratives) ==
    [k \in 1..Len(narratives) |->
        [ text |-> narratives[k].text,
          lang |-> IF Truthy(narratives[k].lang) THEN narratives[k].lang ELSE NoneVal ]]

\* IatiXmlGenerator._add_transaction: the ref attribute, the code of
\* transaction-type and the sector elements, of which it writes none
add_transaction(transaction) ==
    [ ref |-> IF Truthy(transaction.transaction_ref) THEN transaction.transaction_ref
              ELSE NoneVal,
      type |-> transaction.type,
      sectors |-> <<>> ]

\* IatiXmlGenerator.generate_activity_xml
generate_activity_xml(activity) ==
    [ ident |-> activity.iati_identifier,
      lang |-> IF Truthy(activity.xml_lang) THEN activity.xml_lang ELSE NoneVal,
      humanitarian |-> IF activity.humanitarian = NoneVal THEN NoneVal
                       ELSE IF activity.humanitarian = PyTrue THEN <<"1">> ELSE <<"0">>,
      title |-> create_narrative_elements(activity.title),
      transactions |-> [k \in 1..Len(activity.transactions) |->
                           add_transaction(activity.transactions[k])] ]

\* IatiXmlGenerator.generate_iati_activities_xml
generate_iati_activities_xml(activities) ==
    [k \in 1..Len(activities) |-> generate_activity_xml(activities[k])]

(***************************************************************************)
(* activities/base.py: xml_to_csv_folder and csv_folder_to_xml as the      *)
(* caller sees them.  What the parser, the file system, the CSV validation *)
(* and the build do with the content at hand is given to the operators as  *)
(* an argument; the control flow between them is the code's.  A result is  *)
(*   [outcome, origin, latest_errors, latest_warnings, fs_folder,          *)
(*    build_invoked, xml_written]                                          *)
(* with outcome "true" or "false" for the value returned and "raised" for  *)
(* an exception that reaches the caller, and origin the step that failed.  *)
(* An entry of latest_errors is a record: [kind |-> "text", text] for a    *)
(* message and the record of issue_str for a validation issue.             *)
(***************************************************************************)
\* the validation result of a call that does not validate
NoValidation == [raises |-> FALSE, issues |-> <<>>]

TextMsg(text) == [kind |-> "text", text |-> text]

\* ValidationIssue.__str__
issue_str(issue) ==
    [ kind |-> "issue",
      prefix |-> issue.level,
      file_name |-> IF Truthy(issue.file_name) THEN issue.file_name ELSE NoneVal,
      row_number |-> issue.row_number,
      column_name |-> IF issue.column_name = "" THEN NoColumnName ELSE issue.column_name,
      message |-> issue.message ]

IssueStrs(issues) == [k \in 1..Len(issues) |-> issue_str(issues[k])]

\* A mutation of the first two statements of the conversions: the lists
\* keep what they held.
reset_latest_keep(latest) == latest

\* "self.latest_errors = []" and "self.latest_warnings = []", the first
\* statements of xml_to_csv_folder and csv_folder_to_xml; the messages of
\* the call are appended to the result
reset_latest(latest) == <<>>

ConvResult(outcome, origin, latest_errors, latest_warnings, fs_folder, build_invoked, xml_written) ==
    [ outcome |-> outcome, origin |-> origin, latest_errors |-> latest_errors,
      latest_warnings |-> latest_warnings, fs_folder |-> fs_folder,
      build_invoked |-> build_invoked, xml_written |-> xml_written ]

\* xml_to_csv_folder.  xml_input is "wellformed" or "malformed"; write is
\* "ok" or "raises" (an OSError while a table is written).
xml_to_csv_folder(fs_folder, xml_input, overwrite, write) ==
    IF fs_folder = "file" /\ overwrite
    THEN \* shutil.rmtree of a regular file: NotADirectoryError
         ConvResult("raised", "rmtree", <<>>, <<>>, fs_folder, FALSE, FALSE)
    ELSE IF fs_folder = "file"
    THEN \* mkdir(exist_ok=True) on a regular file: FileExistsError
         ConvResult("raised", "mkdir", <<>>, <<>>, fs_folder, FALSE, FALSE)
    ELSE IF xml_input = "malformed"
    THEN ConvResult("false", "parse", << TextMsg(<<"ParseError">>) >>, <<>>,
                    "dir", FALSE, FALSE)
    ELSE IF write = "raises"
    THEN ConvResult("false", "write", << TextMsg(<<"OSError">>) >>, <<>>,
                    "dir", FALSE, FALSE)
    ELSE ConvResult("true", "none", <<>>, <<>>, "dir", FALSE, FALSE)

\* CsvFolderValidator.validate_folder: a path that is no directory gives
\* one MISSING_FILE error; validation is what the engine does with the
\* content of a directory: it raises or returns issues
validate_folder(fs_folder, validation) ==
    IF fs_folder # "dir"
    THEN [ raises |-> FALSE,
           issues |-> << Issue(ERROR, MISSING_FILE, NoneVal, NoRowNumber, NoColumnName,
                               NoneVal, <<"Folder not found">>) >> ]
    ELSE validation

\* A mutation of TaggedErrors: the ruleset errors are left out.
TaggedErrorsSchemaOnly(output) ==
    [k \in 1..Len(output.schema_errors) |->
        [kind |-> "schema", text |-> output.schema_errors[k]]]

\* the tagged messages of an invalid generated document
TaggedErrors(output) ==
    [k \in 1..Len(output.schema_errors) |->
        [kind |-> "schema", text |-> output.schema_errors[k]]]
    \o [k \in 1..Len(output.ruleset_errors) |->
           [kind |-> "ruleset", text |-> output.ruleset_errors[k]]]

\* A mutation of csv_folder_to_xml: an invalid validation result does not
\* end the call.
csv_folder_to_xml_no_abort(fs_folder, validate_output, validate_csv, env) ==
    IF fs_folder = "absent"
    THEN ConvResult("false", "folder", << TextMsg(<<"CSV folder does not exist">>) >>,
                    <<>>, fs_folder, FALSE, FALSE)
    ELSE LET csv_result == IF validate_csv THEN validate_folder(fs_folder, env.validation)
                           ELSE NoValidation
             warns == IssueStrs(warnings(csv_result.issues))
             \* under a path that is no directory no table file exists
             build == IF fs_folder = "dir" THEN env.build ELSE "ok"
         IN  IF csv_result.raises
             THEN ConvResult("raised", "validation", <<>>, <<>>, fs_folder, FALSE, FALSE)
             ELSE IF build = "read_raises"
             THEN ConvResult("false", "read", <<>>, warns, fs_folder, FALSE, FALSE)
             ELSE IF build = "build_raises"
             THEN ConvResult("false", "build", <<>>, warns, fs_folder, TRUE, FALSE)
             ELSE IF env.save = "raises"
             THEN ConvResult("false", "save", <<>>, warns, fs_folder, TRUE, FALSE)
             ELSE IF validate_output /\ env.output.raises
             THEN ConvResult("false", "output_raises", <<>>, warns, fs_folder, TRUE, TRUE)
             ELSE IF validate_output /\ ~env.output.is_valid
             THEN ConvResult("false", "output", TaggedErrors(env.output), warns,
                             fs_folder, TRUE, TRUE)
             ELSE ConvResult("true", "none", <<>>, warns, fs_folder, TRUE, TRUE)

\* csv_folder_to_xml.  env = [validation, build, save, output]: what the
\* CSV validation does, whether reading and building succeed ("ok",
\* "read_raises", "build_raises"), whether the document can be saved
\* ("ok", "raises"), and what the validation of the output does: it raises
\* (inside the try block) or returns is_valid and the two error lists.
csv_folder_to_xml(fs_folder, validate_output, validate_csv, env) ==
    IF fs_folder = "absent"
    THEN ConvResult("false", "folder", << TextMsg(<<"CSV folder does not exist">>) >>,
                    <<>>, fs_folder, FALSE, FALSE)
    ELSE LET csv_result == IF validate_csv THEN validate_folder(fs_folder, env.validation)
                           ELSE NoValidation
             warns == IssueStrs(warnings(csv_result.issues))
             \* under a path that is no directory no table file exists
             build == IF fs_folder = "dir" THEN env.build ELSE "ok"
         IN  IF csv_result.raises
             THEN ConvResult("raised", "validation", <<>>, <<>>, fs_folder, FALSE, FALSE)
             ELSE IF ~is_valid(csv_result.issues)
             THEN ConvResult("false", "validation", IssueStrs(errors(csv_result.issues)),
                             warns, fs_folder, FALSE, FALSE)
             ELSE IF build = "read_raises"
             THEN ConvResult("false", "read", <<>>, warns, fs_folder, FALSE, FALSE)
             ELSE IF build = "build_raises"
             THEN ConvResult("false", "build", <<>>, warns, fs_folder, TRUE, FALSE)
             ELSE IF env.save = "raises"
             THEN ConvResult("false", "save", <<>>, warns, fs_folder, TRUE, FALSE)
             ELSE IF validate_output /\ env.output.raises
             THEN ConvResult("false", "output_raises", <<>>, warns, fs_folder, TRUE, TRUE)
             ELSE IF validate_output /\ ~env.output.is_valid
             THEN ConvResult("false", "output", TaggedErrors(env.output), warns,
                             fs_folder, TRUE, TRUE)
             ELSE ConvResult("true", "none", <<>>, warns, fs_folder, TRUE, TRUE)

(***************************************************************************)
(* The csv_folder directory with its files.  A file name is a sequence of  *)
(* characters; a file is [exists, header, lines, fresh], where fresh tells *)
(* that the last call of xml_to_csv_folder wrote it.  Of the tables of     *)
(* csv_files the model keeps activities, sectors, transactions and         *)
(* transaction_sectors, with the columns the extraction of the model       *)
(* fills and the percentage of a sector; the columns left out are taken to *)
(* hold values that every rule accepts, and so are the vocabulary cells.   *)
(***************************************************************************)
ActivitiesCsv == <<"a", "c", "t", "i", "v", "i", "t", "i", "e", "s", ".", "c", "s", "v">>

TransactionsCsv == <<"t", "r", "a", "n", "s", "a", "c", "t", "i", "o", "n", "s", ".", "c", "s", "v">>

TransactionSectorsCsv == <<"t", "r", "a", "n", "s", "a", "c", "t", "i", "o", "n", "_", "s", "e", "c", "t", "o", "r", "s", ".", "c", "s", "v">>

SectorsCsv == <<"s", "e", "c", "t", "o", "r", "s", ".", "c", "s", "v">>

SummaryTxt == <<"s", "u", "m", "m", "a", "r", "y", ".", "t", "x", "t">>

\* IatiMultiCsvConverter.csv_files, in the order of the dict
csv_files ==
    << [ key |-> "activities", filename |-> ActivitiesCsv, required |-> TRUE,
         columns |-> << "activity_identifier", "title", "title_lang", "humanitarian",
                        "xml_lang", "reporting_org_secondary_reporter" >> ],
       [ key |-> "sectors", filename |-> SectorsCsv, required |-> FALSE,
         columns |-> << "activity_identifier", "sector_code", "vocabulary",
                        "percentage" >> ],
       [ key |-> "transactions", filename |-> TransactionsCsv, required |-> FALSE,
         columns |-> << "activity_identifier", "transaction_ref", "transaction_type",
                        "humanitarian" >> ],
       [ key |-> "transaction_sectors", filename |-> TransactionSectorsCsv,
         required |-> FALSE,
         columns |-> << "activity_identifier", "transaction_ref", "transaction_type",
                        "sector_code", "vocabulary" >> ] >>

\* the column rules of the validator of a table, for the columns kept
column_rules(csv_key) ==
    IF csv_key = "activities"
    THEN << [column |-> "activity_identifier", required |-> TRUE, validators |-> <<>>],
            [column |-> "title", required |-> TRUE, validators |-> <<>>] >>
    ELSE IF csv_key = "transactions"
    THEN << [column |-> "activity_identifier", required |-> TRUE, validators |-> <<>>],
            [column |-> "transaction_type", required |-> TRUE, validators |-> <<>>] >>
    ELSE \* sectors and transaction_sectors
         << [column |-> "activity_identifier", required |-> TRUE, validators |-> <<>>],
            [column |-> "sector_code", required |-> TRUE, validators |-> <<>>] >>

\* the index of the last "." of a name behind its first character, or 0
LastDot(name) ==
    LET dots == {k \in 2..Len(name) : name[k] = "."}
    IN  IF dots = {} THEN 0 ELSE CHOOSE k \in dots : \A l \in dots : l <= k

\* Path(name).stem
PathStem(name) ==
    IF LastDot(name) = 0 THEN name ELSE SubSeq(name, 1, LastDot(name) - 1)

\* Path(name).suffix
PathSuffix(name) ==
    IF LastDot(name) = 0 THEN <<>> ELSE SubSeq(name, LastDot(name), Len(name))

\* sub in text, of str
Contains(text, sub) ==
    \E k \in 1..(Len(text) - Len(sub) + 1) : SubSeq(text, k, k + Len(sub) - 1) = sub

\* CsvFolderValidator._find_csv_file: the files it can return, one for each
\* order in which iterdir lists the folder; the empty set where it returns
\* None
find_csv_file(files, filename) ==
    {f \in DOMAIN files : PathSuffix(f) = <<".", "c", "s", "v">>
                          /\ Contains(PathStem(f), PathStem(filename))}

\* the path validate_folder uses for a table: the file of the table's
\* name, else a file _find_csv_file returns, else no path (the empty set)
TablePath(files, cfg) ==
    IF cfg.filename \in DOMAIN files THEN {cfg.filename}
    ELSE find_csv_file(files, cfg.filename)

\* CsvFolderValidator.validate_folder: the loop over the tables 1..n of
\* csv_files; its state is [issues, file_data].  The folders of the model
\* hold at most one file that _find_csv_file can return for a table, so
\* that the order of iterdir does not matter.
RECURSIVE ValidateTables(_, _)
ValidateTables(files, n) ==
    IF n = 0 THEN [issues |-> <<>>, file_data |-> <<>>]
    ELSE LET prev == ValidateTables(files, n - 1)
             cfg  == csv_files[n]
             path == TablePath(files, cfg)
         IN  IF path = {}
             THEN IF cfg.required
                  THEN [prev EXCEPT !.issues =
                           Append(@, Issue(ERROR, MISSING_FILE, cfg.filename, NoRowNumber,
                                           NoColumnName, NoneVal, cfg.filename))]
                  ELSE prev
             ELSE LET csv_path == CHOOSE f \in path : TRUE
                  IN  [ issues |-> merge(prev.issues,
                                         validate(files[csv_path], csv_path,
                                                  column_rules(cfg.key), cfg.columns)),
                        file_data |-> (cfg.key :> read_csv(files[csv_path]))
                                      @@ prev.file_data ]

\* CsvFolderValidator.validate_folder of a directory: result.issues
validate_folder_files(files) ==
    IF ActivitiesCsv \notin DOMAIN files
    THEN << Issue(ERROR, MISSING_FILE, ActivitiesCsv, NoRowNumber, NoColumnName,
                  NoneVal, ActivitiesCsv) >>
    ELSE LET r == ValidateTables(files, Len(csv_files))
         IN  IF "activities" \in DOMAIN r.file_data /\ r.file_data["activities"] # <<>>
             THEN merge(r.issues, CrossValidate(r.file_data))
             ELSE r.issues

\* csv_folder_to_xml: data_collections, read from the files that have the
\* tables' names
read_tables(files) ==
    [ key \in {csv_files[k].key : k \in 1..Len(csv_files)} |->
        LET cfg == csv_files[CHOOSE k \in 1..Len(csv_files) : csv_files[k].key = key]
        IN  IF cfg.filename \in DOMAIN files THEN read_csv(files[cfg.filename])
            ELSE <<>> ]

\* _write_csv_file: the file written for a table
write_csv_file(columns, data) ==
    [ exists |-> TRUE, header |-> columns,
      lines |-> [k \in 1..Len(data) |->
                    [c \in 1..Len(columns) |-> CsvCell(Get(data[k], columns[c]))]],
      fresh |-> TRUE ]

\* xml_to_csv_folder: the files in the folder after the tables and
\* summary.txt were written to the files that were there; a table the
\* extraction of the model does not fill is written with its header alone
write_tables(files, data_collections) ==
    [ f \in {csv_files[k].filename : k \in 1..Len(csv_files)} |->
        LET cfg == csv_files[CHOOSE k \in 1..Len(csv_files) : csv_files[k].filename = f]
        IN  write_csv_file(cfg.columns,
                           IF cfg.key \in DOMAIN data_collections
                           THEN data_collections[cfg.key] ELSE <<>>) ]
    @@ (SummaryTxt :> [exists |-> TRUE, header |-> <<>>, lines |-> <<>>, fresh |-> TRUE])
    @@ files

\* a directory without files, and no directory
NoFiles == <<>>

\* A mutation of the cleaning of the folder: the files stay.
clean_folder_keep(files, fs_folder, overwrite) ==
    [f \in DOMAIN files |-> [files[f] EXCEPT !.fresh = FALSE]]

\* xml_to_csv_folder: the files in the folder after "Create or clean output
\* folder"; a file that stays is no longer fresh
clean_folder(files, fs_folder, overwrite) ==
    IF fs_folder # "absent" /\ overwrite THEN NoFiles
    ELSE [f \in DOMAIN files |-> [files[f] EXCEPT !.fresh = FALSE]]

(***************************************************************************)
(* Specification SpecResult: a validation result that receives issues and  *)
(* merges of a second result, as the validators do                         *)
(* (result.issues.append(...), result.merge(file_result)).                 *)
(***************************************************************************)
ResultCodes == {"required_field", "percentage_sum"}

ResultIdle ==
    /\ resIssues = <<>>
    /\ otherIssues = <<>>
    /\ resHadError = FALSE
    /\ resMerged = FALSE
    /\ otherHadError = FALSE

\* a path at which no file exists
NoFile == [exists |-> FALSE, header |-> <<>>, lines |-> <<>>]

CrossIdle ==
    /\ fileData = <<>>
    /\ crossIssues = <<>>
    /\ crossPhase = "idle"

RowsIdle ==
    /\ csvFile = NoFile
    /\ rowIssues = <<>>
    /\ rowsPhase = "idle"

PipeIdle ==
    /\ xmlDoc = <<>>
    /\ tables = EmptyTables
    /\ built = <<>>
    /\ outDoc = <<>>
    /\ pipePhase = "idle"

\* the verdict recorded for a call in which the output was not validated
NoOutput ==
    [raises |-> FALSE, is_valid |-> TRUE, schema_errors |-> <<>>, ruleset_errors |-> <<>>]

NoCall ==
    [ op |-> "none", fs_folder |-> "absent", fs_xml |-> "absent",
      overwrite |-> FALSE, files_before |-> 0, errors_before |-> 0, validate_csv |-> FALSE, validate_output |-> FALSE,
      validation |-> NoValidation, output |-> NoOutput, outcome |-> "none",
      origin |-> "none", build_invoked |-> FALSE, xml_written |-> FALSE ]

ConvIdle ==
    /\ fsCsvFolder = "absent"
    /\ fsXmlOut = "absent"
    /\ latestErrors = <<>>
    /\ latestWarnings = <<>>
    /\ lastCall = NoCall

FolderIdle == folderFiles = NoFiles

EnumIdle ==
    /\ enumValue = NoneVal
    /\ enumClass = "none"
    /\ enumResult = "none"

InitResult ==
    ResultIdle /\ CrossIdle /\ RowsIdle /\ PipeIdle /\ ConvIdle /\ FolderIdle /\ EnumIdle

\* result.issues.append(ValidationIssue(level, code, ...))
AppendIssue(lvl, code) ==
    /\ Len(resIssues) < MaxIssues
    /\ resIssues' = Append(resIssues, [level |-> lvl, code |-> code])
    /\ resHadError' = (resHadError \/ lvl = ERROR)
    /\ UNCHANGED <<otherIssues, otherHadError, resMerged>>

\* the same on the second result
AppendIssueOther(lvl, code) ==
    /\ Len(otherIssues) < MaxIssues
    /\ otherIssues' = Append(otherIssues, [level |-> lvl, code |-> code])
    /\ otherHadError' = (otherHadError \/ lvl = ERROR)
    /\ UNCHANGED <<resIssues, resHadError, resMerged>>

\* result.merge(other)
MergeOther ==
    /\ Len(resIssues) + Len(otherIssues) <= MaxIssues
    /\ resIssues' = merge(resIssues, otherIssues)
    /\ resHadError' = (resHadError \/ otherHadError)
    /\ resMerged' = TRUE
    /\ UNCHANGED <<otherIssues, otherHadError>>

NextResult ==
    /\ \/ \E lvl \in ValidationLevel, code \in ResultCodes : AppendIssue(lvl, code)
       \/ \E lvl \in ValidationLevel, code \in ResultCodes : AppendIssueOther(lvl, code)
       \/ MergeOther
    /\ UNCHANGED <<crossVars, rowsVars, pipeVars, convVars, folderVars, enumVars>>

SpecResult == InitResult /\ [][NextResult]_vars

(***************************************************************************)
(* Specification SpecCross: tables are filled row by row and then          *)
(* CrossFileValidator.validate runs on them.  A table is a key of fileData *)
(* from its first row on.                                                  *)
(***************************************************************************)
CrossAids == { <<>>, <<"A">>, <<" ", "A", " ">>, <<"B">> }

CrossRefs == { <<"R">>, <<"S">> }

ActivityRows == { [activity_identifier |-> a] : a \in CrossAids }

ResultRows == { [activity_identifier |-> a, result_ref |-> <<"R">>] : a \in CrossAids }

IndicatorRows ==
    { [activity_identifier |-> a, result_ref |-> r, indicator_ref |-> <<"I">>] :
        a \in CrossAids, r \in CrossRefs }

PeriodRows ==
    { [activity_identifier |-> a, indicator_ref |-> i] :
        a \in CrossAids, i \in { <<"I">>, <<"J">> } }

TableRows(file_data, key) ==
    IF key \in DOMAIN file_data THEN file_data[key] ELSE <<>>

WithRow(file_data, key, row) ==
    [k \in DOMAIN file_data \cup {key} |-> 
        IF k = key THEN Append(TableRows(file_data, key), row) ELSE file_data[k]]

ChildRowCount(file_data) ==
    Len(TableRows(file_data, "results")) + Len(TableRows(file_data, "indicators"))
      + Len(TableRows(file_data, "sectors"))
      + Len(TableRows(file_data, "indicator_periods"))

InitCross ==
    /\ fileData = <<>>
    /\ crossIssues = <<>>
    /\ crossPhase = "edit"
    /\ ResultIdle
    /\ RowsIdle
    /\ PipeIdle
    /\ ConvIdle
    /\ FolderIdle
    /\ EnumIdle

AddActivityRow(row) ==
    /\ crossPhase = "edit"
    /\ Len(TableRows(fileData, "activities")) < MaxActivityRows
    /\ fileData' = WithRow(fileData, "activities", row)
    /\ UNCHANGED <<crossIssues, crossPhase>>

AddResultRow(row) ==
    /\ crossPhase = "edit"
    /\ ChildRowCount(fileData) < MaxChildRows
    /\ fileData' = WithRow(fileData, "results", row)
    /\ UNCHANGED <<crossIssues, crossPhase>>

AddIndicatorRow(row) ==
    /\ crossPhase = "edit"
    /\ ChildRowCount(fileData) < MaxChildRows
    /\ fileData' = WithRow(fileData, "indicators", row)
    /\ UNCHANGED <<crossIssues, crossPhase>>

AddPeriodRow(row) ==
    /\ crossPhase = "edit"
    /\ ChildRowCount(fileData) < MaxChildRows
    /\ fileData' = WithRow(fileData, "indicator_periods", row)
    /\ UNCHANGED <<crossIssues, crossPhase>>

\* result = CrossFileValidator().validate(file_data)
RunCrossValidate ==
    /\ crossPhase = "edit"
    /\ crossIssues' = CrossValidate(fileData)
    /\ crossPhase' = "validated"
    /\ UNCHANGED fileData

NextCross ==
    /\ \/ \E row \in ActivityRows : AddActivityRow(row)
       \/ \E row \in ResultRows : AddResultRow(row)
       \/ \E row \in IndicatorRows : AddIndicatorRow(row)
       \/ \E row \in PeriodRows : AddPeriodRow(row)
       \/ RunCrossValidate
    /\ UNCHANGED <<resultVars, rowsVars, pipeVars, convVars, folderVars, enumVars>>

SpecCross == InitCross /\ [][NextCross]_vars

\* the ORPHAN_REFERENCE errors on column activity_identifier for row n
\* (file row n + 1) of table key
ActivityOrphanErrors(key, n) ==
    { k \in 1..Len(crossIssues) :
        /\ crossIssues[k].level = ERROR
        /\ crossIssues[k].code = ORPHAN_REFERENCE
        /\ crossIssues[k].file_name = <<key, ".csv">>
        /\ crossIssues[k].row_number = n + 1
        /\ crossIssues[k].column_name = "activity_identifier" }

ChildKeys == {"results", "indicators", "indicator_periods", "sectors"} \cap DOMAIN fileData

\* the cell, without surrounding white space, is the identifier of some row
\* of the activities table, without surrounding white space
NamesActivityStripped(cell) ==
    \E k \in 1..Len(TableRows(fileData, "activities")) :
        Strip(fileData["activities"][k].activity_identifier) = Strip(cell)

RefOrphanErrors(key, col, n) ==
    { k \in 1..Len(crossIssues) :
        /\ crossIssues[k].level = ERROR
        /\ crossIssues[k].code = ORPHAN_REFERENCE
        /\ crossIssues[k].file_name = <<key, ".csv">>
        /\ crossIssues[k].row_number = n + 1
        /\ crossIssues[k].column_name = col }

\* table parent has a row of the activity of row whose column col holds
\* what the column holds in row, white space stripped
OwnActivityHas(parent, col, row) ==
    \E k \in 1..Len(TableRows(fileData, parent)) :
        /\ Strip(fileData[parent][k].activity_identifier) = Strip(row.activity_identifier)
        /\ Strip(fileData[parent][k][col]) = Strip(row[col])

\* C14 as stated: after validation, an indicators row has an
\* ORPHAN_REFERENCE error for its result_ref if and only if no results row
\* of the same activity has that result_ref.
C14_IndicatorResultOfOwnActivity ==
    crossPhase = "validated" =>
        \A n \in 1..Len(TableRows(fileData, "indicators")) :
            RefOrphanErrors("indicators", "result_ref", n) # {}
            <=> ~OwnActivityHas("results", "result_ref", fileData["indicators"][n])

\* C15 as stated: after validation, an indicator_periods row has an
\* ORPHAN_REFERENCE error for its indicator_ref if and only if no
\* indicators row of the same activity has that indicator_ref.
C15_PeriodIndicatorOfOwnActivity ==
    crossPhase = "validated" =>
        \A n \in 1..Len(TableRows(fileData, "indicator_periods")) :
            RefOrphanErrors("indicator_periods", "indicator_ref", n) # {}
            <=> ~OwnActivityHas("indicators", "indicator_ref", fileData["indicator_periods"][n])

(***************************************************************************)
(* Specification SpecPct: sectors.csv is filled row by row for two         *)
(* activities and then CrossFileValidator.validate runs.                   *)
(***************************************************************************)
(* Specification SpecDates: the cross-file validator on activities rows    *)
(* with the inline date columns and on the rows of activity_date.          *)
(***************************************************************************)
DateAids == { <<"A">>, <<"B">> }

DatedActivityRows ==
    { [ activity_identifier |-> a, planned_start_date |-> d, actual_start_date |-> <<>>,
        planned_end_date |-> <<>>, actual_end_date |-> e ] :
        a \in DateAids, d \in { <<>>, <<"2", "0", "2", "4", "-", "0", "1", "-", "0", "1">> }, e \in { <<>>, <<"2", "0", "2", "4", "-", "1", "2", "-", "3", "1">> } }

ActivityDateRows ==
    { [activity_identifier |-> a, iso_date |-> <<"2", "0", "2", "4", "-", "0", "1", "-", "0", "1">>, type |-> <<"1">>] : a \in DateAids }

AddActivityDateRow(row) ==
    /\ crossPhase = "edit"
    /\ Len(TableRows(fileData, "activity_date")) < MaxDateRows
    /\ fileData' = WithRow(fileData, "activity_date", row)
    /\ UNCHANGED <<crossIssues, crossPhase>>

NextDates ==
    /\ \/ \E row \in DatedActivityRows : AddActivityRow(row)
       \/ \E row \in ActivityDateRows : AddActivityDateRow(row)
       \/ RunCrossValidate
    /\ UNCHANGED <<resultVars, rowsVars, pipeVars, convVars, folderVars, enumVars>>

SpecDates == InitCross /\ [][NextDates]_vars

\* the activities row has a populated inline date column
HasInlineDate(row) ==
    \E col \in {"planned_start_date", "actual_start_date", "planned_end_date",
                "actual_end_date"} : Strip(row[col]) # EmptyStr

\* the REQUIRED_FIELD errors whose message names the activity
ActivityDateErrors(aid) ==
    { k \in 1..Len(crossIssues) :
        /\ crossIssues[k].level = ERROR
        /\ crossIssues[k].code = REQUIRED_FIELD
        /\ Contains(crossIssues[k].message, aid) }

\* C16 as stated: after validation there is exactly one REQUIRED_FIELD
\* error that names an activity when no activities row of the activity has
\* a populated inline date column and activity_date has no row of the
\* activity, and there is none when the activity has either.
C16_MissingActivityDateReported ==
    crossPhase = "validated" =>
        \A aid \in DateAids :
            (\E k \in 1..Len(TableRows(fileData, "activities")) :
                fileData["activities"][k].activity_identifier = aid)
            => Cardinality(ActivityDateErrors(aid)) =
                 IF \/ \E k \in 1..Len(fileData["activities"]) :
                          /\ fileData["activities"][k].activity_identifier = aid
                          /\ HasInlineDate(fileData["activities"][k])
                    \/ \E k \in 1..Len(TableRows(fileData, "activity_date")) :
                          fileData["activity_date"][k].activity_identifier = aid
                 THEN 0 ELSE 1

(***************************************************************************)
PctAids == { <<"A">>, <<"B">> }

PctCells ==
    { <<>>, <<"a", "b", "c">>, <<"6", "0">>, <<"4", "0">>, <<"3", "0">>,
      <<"5", "0">>, <<"4", "9", ".", "9", "9">>, <<"9", "9", ".", "9", "9">> }

SectorRows == { [activity_identifier |-> a, percentage |-> p] : a \in PctAids, p \in PctCells }

InitPct ==
    /\ fileData = [k \in {"activities"} |->
                      << [activity_identifier |-> <<"A">>], [activity_identifier |-> <<"B">>] >>]
    /\ crossIssues = <<>>
    /\ crossPhase = "edit"
    /\ ResultIdle
    /\ RowsIdle
    /\ PipeIdle
    /\ ConvIdle
    /\ FolderIdle
    /\ EnumIdle

AddSectorRow(row) ==
    /\ crossPhase = "edit"
    /\ Len(TableRows(fileData, "sectors")) < MaxSectorRows
    /\ fileData' = WithRow(fileData, "sectors", row)
    /\ UNCHANGED <<crossIssues, crossPhase>>

NextPct ==
    /\ \/ \E row \in SectorRows : AddSectorRow(row)
       \/ RunCrossValidate
    /\ UNCHANGED <<resultVars, rowsVars, pipeVars, convVars, folderVars, enumVars>>

SpecPct == InitPct /\ [][NextPct]_vars

\* the populated percentages of an activity's sector rows, in hundredths
PopulatedHundredths(aid) ==
    LET rows == TableRows(fileData, "sectors")
    IN  [k \in {j \in 1..Len(rows) :
                  /\ rows[j].activity_identifier = aid
                  /\ IsNumeral(rows[j].percentage)} |-> Hundredths(rows[k].percentage)]

RECURSIVE SumOver(_, _)
SumOver(f, dom) ==
    IF dom = {} THEN 0
    ELSE LET k == CHOOSE j \in dom : TRUE IN f[k] + SumOver(f, dom \ {k})

PercentageWarnings(aid) ==
    { k \in 1..Len(crossIssues) :
        /\ crossIssues[k].code = PERCENTAGE_SUM
        /\ crossIssues[k].level = WARNING
        /\ crossIssues[k].message = aid }

\* C5 as stated: after validation an activity has a PERCENTAGE_SUM warning
\* if and only if it has a sector row with a populated (numeric) percentage
\* and the sum of its populated percentages differs from 100 by more than
\* 0.01, that is by more than one hundredth.
C5_WarnsIffSumOff ==
    crossPhase = "validated" =>
        \A aid \in PctAids :
            LET pcts == PopulatedHundredths(aid)
                off  == SumOver(pcts, DOMAIN pcts) - 10000
            IN  (PercentageWarnings(aid) # {}) <=>
                    (DOMAIN pcts # {} /\ (off > 1 \/ off < -1))

(***************************************************************************)
(* Specification SpecRows: an indicator_periods.csv is missing or is       *)
(* written line by line under a header, and then                           *)
(* IndicatorPeriodsCsvValidator.validate runs on it.  A line may be        *)
(* shorter than the header.                                                *)
(***************************************************************************)
RowsFileName == <<"indicator_periods", ".csv">>

HeaderWithout(col) == SelectSeq(IndicatorPeriodsColumns, LAMBDA c : c # col)

RowsHeaders == { IndicatorPeriodsColumns, HeaderWithout("indicator_ref") }

LeapDay == <<"2", "0", "2", "4", "-", "0", "2", "-", "2", "9">>

NoSuchDay == <<"2", "0", "2", "3", "-", "0", "2", "-", "2", "9">>

\* the lines written: four or five cells
RowsLines ==
    { <<a, b, c, d>> : a \in {<<" ">>, <<"A">>}, b \in {<<>>, <<"R">>},
                        c \in {<<>>, <<"I">>}, d \in {<<>>, NoSuchDay} }
    \cup
    { <<a, b, c, d, LeapDay>> : a \in {<<" ">>, <<"A">>}, b \in {<<>>, <<"R">>},
                                 c \in {<<>>, <<"I">>}, d \in {<<>>, NoSuchDay} }

InitRows ==
    /\ csvFile \in {NoFile} \cup { [exists |-> TRUE, header |-> h, lines |-> <<>>] : h \in RowsHeaders }
    /\ rowIssues = <<>>
    /\ rowsPhase = "edit"
    /\ ResultIdle
    /\ CrossIdle
    /\ PipeIdle
    /\ ConvIdle
    /\ FolderIdle
    /\ EnumIdle

AddLine(line) ==
    /\ rowsPhase = "edit"
    /\ csvFile.exists
    /\ Len(csvFile.lines) < MaxCsvRows
    /\ csvFile' = [csvFile EXCEPT !.lines = Append(@, line)]
    /\ UNCHANGED <<rowIssues, rowsPhase>>

\* result = IndicatorPeriodsCsvValidator().validate(csv_path)
RunValidate ==
    /\ rowsPhase = "edit"
    /\ rowIssues' = validate(csvFile, RowsFileName, IndicatorPeriodsRules,
                             IndicatorPeriodsColumns)
    /\ rowsPhase' = "validated"
    /\ UNCHANGED csvFile

NextRows ==
    /\ \/ \E line \in RowsLines : AddLine(line)
       \/ RunValidate
    /\ UNCHANGED <<resultVars, crossVars, pipeVars, convVars, folderVars, enumVars>>

SpecRows == InitRows /\ [][NextRows]_vars

\* the columns the rule set marks required
RequiredColumns ==
    { IndicatorPeriodsRules[k].column :
        k \in {j \in 1..Len(IndicatorPeriodsRules) : IndicatorPeriodsRules[j].required} }

\* line n of the file has something other than white space under column col
CellFilled(n, col) ==
    \E i \in 1..Len(csvFile.header) :
        /\ csvFile.header[i] = col
        /\ i <= Len(csvFile.lines[n])
        /\ \E j \in 1..Len(csvFile.lines[n][i]) : ~IsSpace(csvFile.lines[n][i][j])

RequiredErrors(n) ==
    { k \in 1..Len(rowIssues) :
        /\ rowIssues[k].code = REQUIRED_FIELD
        /\ rowIssues[k].level = ERROR
        /\ rowIssues[k].row_number = n + 1 }

\* C4: after validation, the number of REQUIRED_FIELD errors of every data
\* row equals the number of required columns whose cell in the row is empty
\* (blank, cut off by a short line, or under no header), and each of those
\* columns is named by one of the errors.
C4_RequiredCountPerRow ==
    (rowsPhase = "validated" /\ csvFile.exists) =>
        \A n \in 1..Len(csvFile.lines) :
            /\ Cardinality(RequiredErrors(n)) =
                   Cardinality({c \in RequiredColumns : ~CellFilled(n, c)})
            /\ \A c \in RequiredColumns :
                   ~CellFilled(n, c) =>
                       \E k \in RequiredErrors(n) : rowIssues[k].column_name = c

\* validation has run on a file with a row that has four empty required
\* columns and four REQUIRED_FIELD errors, and a row with a non-date
C4_Witness ==
    /\ rowsPhase = "validated"
    /\ csvFile.exists
    /\ \E n \in 1..Len(csvFile.lines) :
          /\ Cardinality({c \in RequiredColumns : ~CellFilled(n, c)}) = 4
          /\ Cardinality(RequiredErrors(n)) = 4
    /\ \E k \in 1..Len(rowIssues) : rowIssues[k].code = INVALID_DATE

\* the MISSING_COLUMN warnings that name the column
MissingColumnWarnings(c) ==
    { k \in 1..Len(rowIssues) :
        /\ rowIssues[k].code = MISSING_COLUMN
        /\ rowIssues[k].level = WARNING
        /\ rowIssues[k].column_name = c }

\* C18 as stated: after validation of a file that is present, every
\* expected column that the header lacks has exactly one MISSING_COLUMN
\* warning and every expected column of the header has none, whether or
\* not the file has data rows.
C18_MissingColumnPerAbsentColumn ==
    (rowsPhase = "validated" /\ csvFile.exists) =>
        \A c \in Range(IndicatorPeriodsColumns) :
            Cardinality(MissingColumnWarnings(c)) =
                IF c \in Range(csvFile.header) THEN 0 ELSE 1

(***************************************************************************)
(* Specification SpecEnum: validate_enum is called on a value (None or a   *)
(* string typed character by character) and an enum class: an IntEnum with *)
(* the values 1, 2 and 12, or a str Enum with the values "1" and "2".      *)
(***************************************************************************)
IntMember(name, n) == [name |-> name, is_int |-> TRUE, int |-> n, str |-> <<>>]

StrMember(name, text) == [name |-> name, is_int |-> FALSE, int |-> 0, str |-> text]

IntCodes == << IntMember(<<"A">>, 1), IntMember(<<"B">>, 2), IntMember(<<"A", "B">>, 12) >>

StrCodes == << StrMember(<<"A">>, <<"1">>), StrMember(<<"B">>, <<"2">>) >>

EnumClassNames == {"IntCodes", "StrCodes"}

EnumClassOf(name) == IF name = "IntCodes" THEN IntCodes ELSE StrCodes

CodeChars == {" ", "1", "2", "9", "A"}

InitEnum ==
    /\ enumValue \in {NoneVal, EmptyStr}
    /\ enumClass = "none"
    /\ enumResult = "none"
    /\ ResultIdle
    /\ CrossIdle
    /\ RowsIdle
    /\ PipeIdle
    /\ ConvIdle
    /\ FolderIdle

TypeChar(c) ==
    /\ enumResult = "none"
    /\ enumValue # NoneVal
    /\ Len(enumValue) < MaxCodeLen
    /\ enumValue' = Append(enumValue, c)
    /\ UNCHANGED <<enumClass, enumResult>>

\* error = validate_enum(value, enum_class)
CallValidateEnum(name) ==
    /\ enumResult = "none"
    /\ enumClass' = name
    /\ enumResult' = IF validate_enum(enumValue, EnumClassOf(name)) THEN "error" ELSE "ok"
    /\ UNCHANGED enumValue

NextEnum ==
    /\ \/ \E c \in CodeChars : TypeChar(c)
       \/ \E name \in EnumClassNames : CallValidateEnum(name)
    /\ UNCHANGED <<resultVars, crossVars, rowsVars, pipeVars, convVars, folderVars>>

SpecEnum == InitEnum /\ [][NextEnum]_vars

\* the strings of the member values of the class of the call
CalledValues == Range(valid_values(EnumClassOf(enumClass)))

\* C19 as stated: the check returns no error for a string equal to a
\* member value and an error for every non-empty string that is not a
\* member value.
C19_ErrorIffNotMember ==
    (enumResult # "none" /\ enumValue # NoneVal) =>
        /\ enumValue \in CalledValues => enumResult = "ok"
        /\ (enumValue # EmptyStr /\ enumValue \notin CalledValues) => enumResult = "error"

\* C19: the check returns an error exactly for the strings that, with the
\* surrounding whitespace removed, are neither empty nor the string of a
\* member value; None and every other string get no error.
C19_ErrorIffStrippedNotMember ==
    enumResult # "none" =>
        ( enumResult = "error" <=>
            /\ enumValue # NoneVal
            /\ Strip(enumValue) # EmptyStr
            /\ Strip(enumValue) \notin CalledValues )

\* the check has accepted a member value written with surrounding
\* whitespace, here the two-digit value of the IntEnum
C19_Witness ==
    /\ enumResult = "ok"
    /\ enumClass = "IntCodes"
    /\ enumValue = <<" ", "1", "2", " ">>

(***************************************************************************)
(* The two conversions on a document: xml_to_csv_folder extracts every     *)
(* iati-activity element and writes the tables; csv_folder_to_xml reads    *)
(* the tables, builds the activities and generates the document.           *)
(***************************************************************************)
InitPipe ==
    /\ xmlDoc = <<>>
    /\ tables = EmptyTables
    /\ built = <<>>
    /\ outDoc = <<>>
    /\ pipePhase = "doc"
    /\ ResultIdle
    /\ CrossIdle
    /\ RowsIdle
    /\ ConvIdle
    /\ FolderIdle
    /\ EnumIdle

XmlToCsvFolder ==
    /\ pipePhase = "doc"
    /\ tables' = CsvFolder(ExtractAll(xmlDoc, Len(xmlDoc)))
    /\ pipePhase' = "extracted"
    /\ UNCHANGED <<xmlDoc, built, outDoc>>

CsvFolderToXml ==
    /\ pipePhase = "extracted"
    /\ built' = build_activities_from_collections(tables)
    /\ outDoc' = generate_iati_activities_xml(built')
    /\ pipePhase' = "converted"
    /\ UNCHANGED <<xmlDoc, tables>>

NoAttr == NoneVal

PlainTitle == << [text |-> <<"T">>, lang |-> NoAttr] >>

(***************************************************************************)
(* Specification SpecTri: documents whose activities and transactions      *)
(* carry the tri-state attributes in every state.                          *)
(***************************************************************************)
TriTransactions ==
    { << [ref |-> <<"r">>, type |-> <<"2">>, humanitarian |-> h, sectors |-> <<>>] >> :
        h \in {NoAttr, <<"0">>, <<"1">>} }

TriElems ==
    { [ ident |-> i, humanitarian |-> h, lang |-> <<"e", "n">>, title |-> PlainTitle,
        reporting_org |-> [secondary_reporter |-> sr], transactions |-> t ] :
        i \in {<<"A">>, <<"B">>},
        h \in {NoAttr, <<"0">>, <<"1">>, <<"t", "r", "u", "e">>},
        sr \in {NoAttr, <<"0">>, <<"1">>},
        t \in TriTransactions }

AddTriActivity(elem) ==
    /\ pipePhase = "doc"
    /\ Len(xmlDoc) < MaxTriActivities
    /\ xmlDoc' = Append(xmlDoc, elem)
    /\ UNCHANGED <<tables, built, outDoc, pipePhase>>

NextTri ==
    /\ \/ \E elem \in TriElems : AddTriActivity(elem)
       \/ XmlToCsvFolder
       \/ CsvFolderToXml
    /\ UNCHANGED <<resultVars, crossVars, rowsVars, convVars, folderVars, enumVars>>

SpecTri == InitPipe /\ [][NextTri]_vars

\* the state of a tri-state attribute written absent, "0" or "1"
TriStates == {NoAttr, <<"0">>, <<"1">>}

TriOf(attr) ==
    IF attr = NoAttr THEN NoneVal ELSE IF attr = <<"0">> THEN PyFalse ELSE PyTrue

\* the elements of the document with an identifier, in document order
ElemsOf(ident) == SelectSeq(xmlDoc, LAMBDA e : e.ident = ident)

RECURSIVE TransactionsOf(_, _)
TransactionsOf(elems, n) ==
    IF n = 0 THEN <<>> ELSE TransactionsOf(elems, n - 1) \o elems[n].transactions

\* C2: after extraction and build, every identifier of the document has
\* one built activity; its humanitarian and its reporting organisation's
\* secondary_reporter are None, False or True as the attribute of the
\* (last) element with the identifier is absent, "0" or "1"; and its
\* transactions are those of the identifier's elements, each with
\* humanitarian None, False or True as the transaction's attribute is
\* absent, "0" or "1".
C2_TriStatePreserved ==
    pipePhase = "converted" =>
        /\ {built[k].iati_identifier : k \in 1..Len(built)}
               = {xmlDoc[k].ident : k \in 1..Len(xmlDoc)}
        /\ \A k \in 1..Len(built) :
              LET elems == ElemsOf(built[k].iati_identifier)
                  src   == elems[Len(elems)]
                  txs   == TransactionsOf(elems, Len(elems))
              IN  /\ \A l \in 1..Len(built) :
                         built[l].iati_identifier = built[k].iati_identifier => l = k
                  /\ src.humanitarian \in TriStates =>
                         built[k].humanitarian = TriOf(src.humanitarian)
                  /\ src.reporting_org.secondary_reporter \in TriStates =>
                         built[k].reporting_org.secondary_reporter
                             = TriOf(src.reporting_org.secondary_reporter)
                  /\ Len(built[k].transactions) = Len(txs)
                  /\ \A j \in 1..Len(txs) :
                         txs[j].humanitarian \in TriStates =>
                             built[k].transactions[j].humanitarian
                                 = TriOf(txs[j].humanitarian)

\* a converted document of two activities: one with every attribute
\* absent, one with humanitarian "0", secondary-reporter "1" and a
\* transaction with humanitarian "1"
C2_Witness ==
    /\ pipePhase = "converted"
    /\ Len(xmlDoc) = 2
    /\ \E k \in 1..Len(xmlDoc) :
          /\ xmlDoc[k].humanitarian = NoAttr
          /\ xmlDoc[k].reporting_org.secondary_reporter = NoAttr
          /\ xmlDoc[k].transactions # <<>>
          /\ xmlDoc[k].transactions[1].humanitarian = NoAttr
    /\ \E k \in 1..Len(built) :
          /\ built[k].humanitarian = PyFalse
          /\ built[k].reporting_org.secondary_reporter = PyTrue
          /\ built[k].transactions # <<>>
          /\ built[k].transactions[1].humanitarian = PyTrue

(***************************************************************************)
(* Specification SpecTxSec: documents whose transactions and their sector  *)
(* elements vary; an activity may lack its iati-identifier.                *)
(***************************************************************************)
TxElem(ident) ==
    [ ident |-> ident, humanitarian |-> NoAttr, lang |-> <<"e", "n">>,
      title |-> PlainTitle, reporting_org |-> [secondary_reporter |-> NoAttr],
      transactions |-> <<>> ]

TransactionCount(doc) == Len(TransactionsOf(doc, Len(doc)))

RECURSIVE SectorCount(_, _)
SectorCount(txs, n) ==
    IF n = 0 THEN 0 ELSE SectorCount(txs, n - 1) + Len(txs[n].sectors)

AddTxActivity(ident) ==
    /\ pipePhase = "doc"
    /\ Len(xmlDoc) < MaxTxActivities
    /\ xmlDoc' = Append(xmlDoc, TxElem(ident))
    /\ UNCHANGED <<tables, built, outDoc, pipePhase>>

\* a transaction element is written into the last activity
AddTransaction(ref, type) ==
    /\ pipePhase = "doc"
    /\ xmlDoc # <<>>
    /\ TransactionCount(xmlDoc) < MaxTransactions
    /\ xmlDoc' = [xmlDoc EXCEPT ![Len(xmlDoc)].transactions =
                     Append(@, [ref |-> ref, type |-> type,
                                humanitarian |-> NoAttr, sectors |-> <<>>])]
    /\ UNCHANGED <<tables, built, outDoc, pipePhase>>

\* a sector element is written into the last transaction of the last activity
AddTxSector(code, vocabulary) ==
    /\ pipePhase = "doc"
    /\ xmlDoc # <<>>
    /\ xmlDoc[Len(xmlDoc)].transactions # <<>>
    /\ LET txs == TransactionsOf(xmlDoc, Len(xmlDoc))
       IN  SectorCount(txs, Len(txs)) < MaxTxSectors
    /\ xmlDoc' = [xmlDoc EXCEPT
                     ![Len(xmlDoc)].transactions[Len(xmlDoc[Len(xmlDoc)].transactions)].sectors =
                         Append(@, [code |-> code, vocabulary |-> vocabulary])]
    /\ UNCHANGED <<tables, built, outDoc, pipePhase>>

NextTxSec ==
    /\ \/ \E ident \in {NoneVal, <<"A">>, <<"B">>} : AddTxActivity(ident)
       \/ \E ref \in {NoAttr, <<"r">>}, type \in {<<"2">>, <<"3">>} : AddTransaction(ref, type)
       \/ \E code \in {<<"x">>, <<"y">>}, vocabulary \in {NoAttr, <<"1">>, <<"2">>} :
             AddTxSector(code, vocabulary)
       \/ XmlToCsvFolder
       \/ CsvFolderToXml
    /\ UNCHANGED <<resultVars, crossVars, rowsVars, convVars, folderVars, enumVars>>

SpecTxSec == InitPipe /\ [][NextTxSec]_vars

\* C6 as stated: after extraction no two rows of the transaction_sectors
\* table have the same (activity_identifier, transaction_ref,
\* transaction_type, sector_code, vocabulary).
C6_TransactionSectorRowsUnique ==
    pipePhase \in {"extracted", "converted"} =>
        \A i, j \in 1..Len(tables.transaction_sectors) :
            sector_key(tables.transaction_sectors[i]) = sector_key(tables.transaction_sectors[j])
                => i = j

\* the slots <<activity, transaction, position>> of the built activities
\* that hold row k of transaction_sectors
SectorSlots(k) ==
    LET row == tables.transaction_sectors[k]
    IN  { slot \in (1..Len(built)) \X (1..MaxTransactions) \X (1..MaxTxSectors) :
            /\ slot[2] <= Len(built[slot[1]].transactions)
            /\ slot[3] <= Len(built[slot[1]].transactions[slot[2]].sectors)
            /\ built[slot[1]].iati_identifier = row.activity_identifier
            /\ built[slot[1]].transactions[slot[2]].transaction_ref = row.transaction_ref
            /\ built[slot[1]].transactions[slot[2]].type = row.transaction_type
            /\ built[slot[1]].transactions[slot[2]].sectors[slot[3]] =
                   [code |-> row.sector_code, vocabulary |-> row.vocabulary] }

\* C22 as stated: after the build every row of transaction_sectors is in
\* exactly one slot of one transaction of one activity: it is consumed
\* once and attached to no second parent.
C22_RowInExactlyOneSlot ==
    pipePhase = "converted" =>
        \A k \in 1..Len(tables.transaction_sectors) : Cardinality(SectorSlots(k)) = 1

\* the (code, vocabulary) pairs of the sector elements of a transaction
SectorPairs(trans_elem) ==
    { << trans_elem.sectors[k].code, trans_elem.sectors[k].vocabulary >> :
        k \in 1..Len(trans_elem.sectors) }

\* C25 as stated: after the round trip every transaction of an activity
\* that has its own identifier carries in the generated document exactly
\* the sector (code, vocabulary) pairs it had in the source.
C25_TransactionSectorsPreserved ==
    pipePhase = "converted" =>
        \A k \in 1..Len(xmlDoc) :
            ( /\ xmlDoc[k].ident # NoneVal
              /\ \A l \in 1..Len(xmlDoc) : xmlDoc[l].ident = xmlDoc[k].ident => l = k )
            => \A o \in 1..Len(outDoc) :
                  outDoc[o].ident = xmlDoc[k].ident =>
                      /\ Len(outDoc[o].transactions) = Len(xmlDoc[k].transactions)
                      /\ \A j \in 1..Len(xmlDoc[k].transactions) :
                            SectorPairs(outDoc[o].transactions[j]) =
                                SectorPairs(xmlDoc[k].transactions[j])

\* C17 as stated: after the round trip every iati-activity element of the
\* source has given one activities row, every activities row has given
\* one rebuilt activity, and the generated document has as many
\* activities as the source.
C17_ActivityCountPreserved ==
    pipePhase = "converted" =>
        /\ Len(tables.activities) = Len(xmlDoc)
        /\ Len(built) = Len(tables.activities)
        /\ Len(outDoc) = Len(xmlDoc)

(***************************************************************************)
(* Specification SpecRound: valid documents (every activity with its own   *)
(* non-empty identifier and a title of one or two narratives) go through   *)
(* xml_to_csv_folder and csv_folder_to_xml.                                *)
(***************************************************************************)
RoundTitles ==
    { PlainTitle,
      << [text |-> <<"U">>, lang |-> <<"f", "r">>] >>,
      << [text |-> <<"T">>, lang |-> NoAttr], [text |-> <<"U">>, lang |-> <<"f", "r">>] >> }

RoundElems ==
    { [ ident |-> i, humanitarian |-> h, lang |-> l, title |-> t,
        reporting_org |-> [secondary_reporter |-> NoAttr], transactions |-> <<>> ] :
        i \in {<<"A">>, <<"B">>},
        h \in {NoAttr, <<"0">>, <<"1">>},
        l \in {NoAttr, <<"e", "n">>, <<"f", "r">>},
        t \in RoundTitles }

AddValidActivity(elem) ==
    /\ pipePhase = "doc"
    /\ Len(xmlDoc) < MaxRoundActivities
    /\ \A k \in 1..Len(xmlDoc) : xmlDoc[k].ident # elem.ident
    /\ xmlDoc' = Append(xmlDoc, elem)
    /\ UNCHANGED <<tables, built, outDoc, pipePhase>>

NextRound ==
    /\ \/ \E elem \in RoundElems : AddValidActivity(elem)
       \/ XmlToCsvFolder
       \/ CsvFolderToXml
    /\ UNCHANGED <<resultVars, crossVars, rowsVars, convVars, folderVars, enumVars>>

SpecRound == InitPipe /\ [][NextRound]_vars

\* two elements hold the same attributes, identifier and title narratives,
\* the order of the narratives aside
SameElement(orig, out) ==
    /\ orig.ident = out.ident
    /\ orig.lang = out.lang
    /\ orig.humanitarian = out.humanitarian
    /\ Len(orig.title) = Len(out.title)
    /\ Range(orig.title) = Range(out.title)

\* C1 as stated: after the round trip the generated document has, for
\* every activity of the original, an activity with the same identifier,
\* attributes and title narratives, and has no other activity.
C1_RoundTripEquivalent ==
    pipePhase = "converted" =>
        /\ Len(outDoc) = Len(xmlDoc)
        /\ \A k \in 1..Len(xmlDoc) : \E l \in 1..Len(outDoc) : SameElement(xmlDoc[k], outDoc[l])
        /\ \A l \in 1..Len(outDoc) : \E k \in 1..Len(xmlDoc) : SameElement(xmlDoc[k], outDoc[l])

\* C24 as stated: an iati-activity element or title narrative that has no
\* xml:lang in the source has an empty language cell in its activities row
\* and no xml:lang in the generated document.
C24_NoLanguageInvented ==
    \A k \in 1..Len(xmlDoc) :
        /\ pipePhase \in {"extracted", "converted"} =>
              /\ xmlDoc[k].lang = NoAttr => tables.activities[k].xml_lang = EmptyStr
              /\ xmlDoc[k].title[1].lang = NoAttr => tables.activities[k].title_lang = EmptyStr
        /\ pipePhase = "converted" =>
              /\ xmlDoc[k].lang = NoAttr => outDoc[k].lang = NoAttr
              /\ xmlDoc[k].title[1].lang = NoAttr => outDoc[k].title[1].lang = NoAttr

(***************************************************************************)
(* Specification SpecDesc: the description elements of one activity are    *)
(* written, extracted into the rows of descriptions.csv and built again.   *)
(* xmlDoc holds the description elements, tables the rows as read back     *)
(* and built the blocks of Activity.description.                           *)
(***************************************************************************)
DescAid == <<"A">>

DescTypes == { NoAttr, <<"1">>, <<"2">> }

DescNarratives == { [text |-> <<"T">>, lang |-> NoAttr],
                    [text |-> <<"U">>, lang |-> <<"f", "r">>] }

InitDesc ==
    /\ xmlDoc = <<>>
    /\ tables = <<>>
    /\ built = <<>>
    /\ outDoc = <<>>
    /\ pipePhase = "doc"
    /\ ResultIdle
    /\ CrossIdle
    /\ RowsIdle
    /\ ConvIdle
    /\ FolderIdle
    /\ EnumIdle

AddDescription(type) ==
    /\ pipePhase = "doc"
    /\ Len(xmlDoc) < MaxDescriptions
    /\ xmlDoc' = Append(xmlDoc, [type |-> type, narratives |-> <<>>])
    /\ UNCHANGED <<tables, built, outDoc, pipePhase>>

\* a narrative element is written into the last description
AddNarrative(narrative) ==
    /\ pipePhase = "doc"
    /\ xmlDoc # <<>>
    /\ Len(xmlDoc[Len(xmlDoc)].narratives) < MaxNarratives
    /\ xmlDoc' = [xmlDoc EXCEPT ![Len(xmlDoc)].narratives = Append(@, narrative)]
    /\ UNCHANGED <<tables, built, outDoc, pipePhase>>

\* xml_to_csv_folder: the rows of descriptions.csv, written and read back
ExtractDescriptionRows ==
    /\ pipePhase = "doc"
    /\ tables' = CsvRows(extract_descriptions(xmlDoc, DescAid, Len(xmlDoc)))
    /\ pipePhase' = "extracted"
    /\ UNCHANGED <<xmlDoc, built, outDoc>>

\* csv_folder_to_xml: descriptions = build_descriptions_from_rows(data['descriptions'])
BuildDescriptions ==
    /\ pipePhase = "extracted"
    /\ built' = build_descriptions_from_rows(
                    SelectSeq(tables, LAMBDA r : r.activity_identifier = DescAid))
    /\ pipePhase' = "converted"
    /\ UNCHANGED <<xmlDoc, tables, outDoc>>

NextDesc ==
    /\ \/ \E type \in DescTypes : AddDescription(type)
       \/ \E narrative \in DescNarratives : AddNarrative(narrative)
       \/ ExtractDescriptionRows
       \/ BuildDescriptions
    /\ UNCHANGED <<resultVars, crossVars, rowsVars, convVars, folderVars, enumVars>>

SpecDesc == InitDesc /\ [][NextDesc]_vars

BatchAids == { <<"A">>, <<"B">> }

BatchTables == [ activities |-> <<>>, transactions |-> <<>>,
                 transaction_sectors |-> <<>>, activity_date |-> <<>> ]

BatchActivityRow(aid) == CsvRows(<< extract_main_activity_data(TxElem(aid), aid) >>)[1]

BatchDateRow(aid, type) ==
    [ activity_identifier |-> aid, type |-> type,
      iso_date |-> <<"2", "0", "2", "4", "-", "0", "1", "-", "0", "1">>,
      narrative |-> EmptyStr, narrative_lang |-> EmptyStr ]

InitBatch ==
    /\ xmlDoc = <<>>
    /\ tables = BatchTables
    /\ built = <<>>
    /\ outDoc = <<>>
    /\ pipePhase = "extracted"
    /\ fsCsvFolder = "dir"
    /\ fsXmlOut \in {"absent", "present"}
    /\ latestErrors = <<>>
    /\ latestWarnings = <<>>
    /\ lastCall = NoCall
    /\ ResultIdle
    /\ CrossIdle
    /\ RowsIdle
    /\ FolderIdle
    /\ EnumIdle

AddBatchActivity(aid) ==
    /\ pipePhase = "extracted"
    /\ Len(tables.activities) < MaxBatchActivities
    /\ \A k \in 1..Len(tables.activities) : tables.activities[k].activity_identifier # aid
    /\ tables' = [tables EXCEPT !.activities = Append(@, BatchActivityRow(aid))]
    /\ UNCHANGED <<xmlDoc, built, outDoc, pipePhase, convVars>>

AddBatchDate(aid, type) ==
    /\ pipePhase = "extracted"
    /\ Len(tables.activity_date) < MaxBatchDates
    /\ tables' = [tables EXCEPT !.activity_date = Append(@, BatchDateRow(aid, type))]
    /\ UNCHANGED <<xmlDoc, built, outDoc, pipePhase, convVars>>

\* converter.csv_folder_to_xml(csv_folder, xml_output, validate_output=False,
\* validate_csv=False)
BatchCsvFolderToXml ==
    LET b == build_activities_or_raise(tables)
        env == [ validation |-> NoValidation,
                 build |-> IF b.raised THEN "build_raises" ELSE "ok",
                 save |-> "ok", output |-> NoOutput ]
        r == csv_folder_to_xml(fsCsvFolder, FALSE, FALSE, env)
    IN  /\ pipePhase = "extracted"
        /\ pipePhase' = "converted"
        /\ built' = b.activities
        /\ outDoc' = IF r.xml_written THEN generate_iati_activities_xml(b.activities)
                     ELSE outDoc
        /\ fsXmlOut' = IF r.xml_written THEN "present" ELSE fsXmlOut
        /\ latestErrors' = reset_latest(latestErrors) \o r.latest_errors
        /\ latestWarnings' = reset_latest(latestWarnings) \o r.latest_warnings
        /\ lastCall' = [ op |-> "csv_folder_to_xml", fs_folder |-> fsCsvFolder,
                         fs_xml |-> fsXmlOut, overwrite |-> FALSE,
                         files_before |-> 0, errors_before |-> Len(latestErrors),
                         validate_csv |-> FALSE,
                         validate_output |-> FALSE, validation |-> NoValidation,
                         output |-> NoOutput, outcome |-> r.outcome, origin |-> r.origin,
                         build_invoked |-> r.build_invoked, xml_written |-> r.xml_written ]
        /\ UNCHANGED <<xmlDoc, tables, fsCsvFolder>>

NextBatch ==
    /\ \/ \E aid \in BatchAids : AddBatchActivity(aid)
       \/ \E aid \in BatchAids, type \in { <<"1">>, <<"9">> } : AddBatchDate(aid, type)
       \/ BatchCsvFolderToXml
    /\ UNCHANGED <<resultVars, crossVars, rowsVars, folderVars, enumVars>>

SpecBatch == InitBatch /\ [][NextBatch]_vars

\* the activities of the table whose assembly raises
RaisingActivities ==
    { aid \in BatchAids :
        /\ \E k \in 1..Len(tables.activities) : tables.activities[k].activity_identifier = aid
        /\ \E k \in 1..Len(tables.activity_date) :
              /\ tables.activity_date[k].activity_identifier = aid
              /\ tables.activity_date[k].type \notin ActivityDateTypeValues }

\* C21: when the assembly of an activity raises, the conversion returns
\* False, no list of activities is returned, and no XML document is
\* written: the xml_output path is as it was before the call and no
\* activity of the batch is in a generated document.
C21_RaiseAbortsBatch ==
    (pipePhase = "converted" /\ RaisingActivities # {}) =>
        /\ lastCall.outcome = "false"
        /\ built = <<>>
        /\ outDoc = <<>>
        /\ ~lastCall.xml_written
        /\ fsXmlOut = lastCall.fs_xml

\* the conversion has run on two activities of which the second has an
\* activity_date row that cannot be built and the first has one that can
C21_Witness ==
    /\ pipePhase = "converted"
    /\ Len(tables.activities) = 2
    /\ RaisingActivities = { tables.activities[2].activity_identifier }
    /\ \E k \in 1..Len(tables.activity_date) :
          tables.activity_date[k].activity_identifier = tables.activities[1].activity_identifier
    /\ lastCall.origin = "build"
    /\ fsXmlOut = "absent"

(***************************************************************************)
(* Specification SpecFlag: the tri-state cells of an activities row and of *)
(* a transactions row are written and the activity is built.               *)
(***************************************************************************)
FlagCells ==
    { EmptyStr, <<"0">>, <<"1">>, <<"2">>, <<"t", "r", "u", "e">>,
      <<"f", "a", "l", "s", "e">>, <<"T", "R", "U", "E">>, <<"F", "a", "l", "s", "e">> }

FlagTables ==
    [ activities |-> << BatchActivityRow(<<"A">>) >>,
      transactions |-> << [ activity_identifier |-> <<"A">>, humanitarian |-> EmptyStr,
                            transaction_ref |-> <<"r">>, transaction_type |-> <<"2">> ] >>,
      transaction_sectors |-> <<>> ]

InitFlag ==
    /\ xmlDoc = <<>>
    /\ tables = FlagTables
    /\ built = <<>>
    /\ outDoc = <<>>
    /\ pipePhase = "extracted"
    /\ ResultIdle
    /\ CrossIdle
    /\ RowsIdle
    /\ ConvIdle
    /\ FolderIdle
    /\ EnumIdle

\* a cell of the activities row is written
SetActivityFlag(column, value) ==
    /\ pipePhase = "extracted"
    /\ tables.activities[1][column] # value
    /\ tables' = [tables EXCEPT !.activities[1][column] = value]
    /\ UNCHANGED <<xmlDoc, built, outDoc, pipePhase>>

\* the humanitarian cell of the transactions row is written
SetTransactionFlag(value) ==
    /\ pipePhase = "extracted"
    /\ tables.transactions[1].humanitarian # value
    /\ tables' = [tables EXCEPT !.transactions[1].humanitarian = value]
    /\ UNCHANGED <<xmlDoc, built, outDoc, pipePhase>>

NextFlag ==
    /\ \/ \E column \in {"humanitarian", "reporting_org_secondary_reporter"},
             value \in FlagCells : SetActivityFlag(column, value)
       \/ \E value \in FlagCells : SetTransactionFlag(value)
       \/ CsvFolderToXml
    /\ UNCHANGED <<resultVars, crossVars, rowsVars, convVars, folderVars, enumVars>>

SpecFlag == InitFlag /\ [][NextFlag]_vars

\* the boolean a cell denotes
FlagDenotes(cell) ==
    IF Lower(Strip(cell)) \in { <<"1">>, <<"t", "r", "u", "e">> } THEN PyTrue ELSE PyFalse

\* the cell is not blank and the boolean-flag check returns no error for it
FlagAccepted(cell) == ~IsBlank(cell) /\ ~validate_boolean_flag(cell)

\* C27 as stated: after the build every tri-state cell that the
\* boolean-flag check accepts has become the boolean it denotes: the
\* activity's humanitarian, the reporting organisation's secondary_reporter
\* and the transaction's humanitarian.
C27_AcceptedFlagsParsed ==
    pipePhase = "converted" =>
        /\ FlagAccepted(tables.activities[1].humanitarian) =>
              built[1].humanitarian = FlagDenotes(tables.activities[1].humanitarian)
        /\ FlagAccepted(tables.activities[1].reporting_org_secondary_reporter) =>
              built[1].reporting_org.secondary_reporter =
                  FlagDenotes(tables.activities[1].reporting_org_secondary_reporter)
        /\ FlagAccepted(tables.transactions[1].humanitarian) =>
              built[1].transactions[1].humanitarian =
                  FlagDenotes(tables.transactions[1].humanitarian)

(***************************************************************************)
(* Specification SpecConv: the two conversions are called, any number of   *)
(* times and in any order, on a csv_folder path that is absent, a regular  *)
(* file or a directory.                                                    *)
(***************************************************************************)
ConvIssueE1 ==
    Issue(ERROR, REQUIRED_FIELD, <<"activities", ".csv">>, 2, "title", EmptyStr, <<"title">>)

ConvIssueE2 ==
    Issue(ERROR, ORPHAN_REFERENCE, <<"sectors", ".csv">>, 2, "activity_identifier",
          <<"B">>, <<"B">>)

ConvIssueW ==
    Issue(WARNING, PERCENTAGE_SUM, <<"sectors", ".csv">>, NoRowNumber, "percentage",
          NoneVal, <<"A">>)

ConvValidations ==
    { [raises |-> TRUE, issues |-> <<>>] } \cup
    { [raises |-> FALSE, issues |-> q] :
        q \in { <<>>, <<ConvIssueW>>, <<ConvIssueE1>>, <<ConvIssueE1, ConvIssueW>>,
                <<ConvIssueW, ConvIssueE2>>, <<ConvIssueE1, ConvIssueE2>> } }

ConvOutputs ==
    { [raises |-> TRUE, is_valid |-> FALSE, schema_errors |-> <<>>, ruleset_errors |-> <<>>],
      [raises |-> FALSE, is_valid |-> TRUE, schema_errors |-> <<>>, ruleset_errors |-> <<>>] }
    \cup
    { [raises |-> FALSE, is_valid |-> FALSE, schema_errors |-> se, ruleset_errors |-> re] :
        se \in { <<>>, << <<"s">> >>, << <<"s">>, <<"t">> >> },
        re \in { <<>>, << <<"r">> >>, << <<"s">> >> } }

ConvEnvs ==
    [ validation : ConvValidations, build : {"ok", "read_raises", "build_raises"},
      save : {"ok", "raises"}, output : ConvOutputs ]

InitConv ==
    /\ fsCsvFolder \in {"absent", "file", "dir"}
    /\ fsXmlOut \in {"absent", "present"}
    /\ latestErrors = <<>>
    /\ latestWarnings = <<>>
    /\ lastCall = NoCall
    /\ ResultIdle
    /\ CrossIdle
    /\ RowsIdle
    /\ PipeIdle
    /\ FolderIdle
    /\ EnumIdle

CallXmlToCsvFolder(xml_input, overwrite, write) ==
    LET r == xml_to_csv_folder(fsCsvFolder, xml_input, overwrite, write)
    IN  /\ latestErrors' = reset_latest(latestErrors) \o r.latest_errors
        /\ latestWarnings' = reset_latest(latestWarnings) \o r.latest_warnings
        /\ fsCsvFolder' = r.fs_folder
        /\ lastCall' = [ op |-> "xml_to_csv_folder", fs_folder |-> fsCsvFolder,
                         fs_xml |-> fsXmlOut, overwrite |-> overwrite,
                         files_before |-> Cardinality(DOMAIN folderFiles),
                         errors_before |-> Len(latestErrors),
                         validate_csv |-> FALSE,
                         validate_output |-> FALSE, validation |-> NoValidation,
                         output |-> NoOutput, outcome |-> r.outcome, origin |-> r.origin,
                         build_invoked |-> r.build_invoked, xml_written |-> r.xml_written ]
        /\ UNCHANGED fsXmlOut

CallCsvFolderToXml(validate_output, validate_csv, env) ==
    LET r == csv_folder_to_xml(fsCsvFolder, validate_output, validate_csv, env)
    IN  /\ latestErrors' = reset_latest(latestErrors) \o r.latest_errors
        /\ latestWarnings' = reset_latest(latestWarnings) \o r.latest_warnings
        /\ fsXmlOut' = IF r.xml_written THEN "present" ELSE fsXmlOut
        /\ lastCall' = [ op |-> "csv_folder_to_xml", fs_folder |-> fsCsvFolder,
                         fs_xml |-> fsXmlOut, overwrite |-> FALSE,
                         files_before |-> Cardinality(DOMAIN folderFiles),
                         errors_before |-> Len(latestErrors),
                         validate_csv |-> validate_csv,
                         validate_output |-> validate_output,
                         validation |-> IF validate_csv THEN env.validation ELSE NoValidation,
                         \* the validator runs after the document was saved
                         output |-> IF validate_output /\ r.xml_written THEN env.output
                                    ELSE NoOutput,
                         outcome |-> r.outcome, origin |-> r.origin,
                         build_invoked |-> r.build_invoked, xml_written |-> r.xml_written ]
        /\ UNCHANGED fsCsvFolder

NextConv ==
    /\ \/ \E xml_input \in {"wellformed", "malformed"}, overwrite \in BOOLEAN,
             write \in {"ok", "raises"} : CallXmlToCsvFolder(xml_input, overwrite, write)
       \/ \E validate_output \in BOOLEAN, validate_csv \in BOOLEAN, env \in ConvEnvs :
             CallCsvFolderToXml(validate_output, validate_csv, env)
    /\ UNCHANGED <<resultVars, crossVars, rowsVars, pipeVars, folderVars, enumVars>>

SpecConv == InitConv /\ [][NextConv]_vars

\* the messages the most recent call produced, from what the call was
\* given: the message of the missing folder, of the exception caught, of
\* the error-level issues of the validation and of the invalid output
ProducedErrors ==
    { TextMsg(<<"CSV folder does not exist">>), TextMsg(<<"ParseError">>),
      TextMsg(<<"OSError">>) }
    \cup Range(IssueStrs(errors(validate_folder(lastCall.fs_folder, lastCall.validation).issues)))
    \cup Range(TaggedErrors(lastCall.output))

ProducedWarnings ==
    Range(IssueStrs(warnings(validate_folder(lastCall.fs_folder, lastCall.validation).issues)))

\* C30: after every call of a conversion, latest_errors and latest_warnings
\* hold messages of that call only, no more of them than the call produced,
\* and latest_errors is empty when the call returned success.
C30_LatestHoldOnlyLastCall ==
    lastCall.op # "none"
    => /\ \A k \in 1..Len(latestErrors) : latestErrors[k] \in ProducedErrors
       /\ \A k \in 1..Len(latestWarnings) : latestWarnings[k] \in ProducedWarnings
       /\ Len(latestErrors) <= Cardinality(ProducedErrors)
       /\ lastCall.outcome = "true" => latestErrors = <<>>

\* a call that returned success and left latest_errors empty, on a
\* converter whose latest_errors held two messages when the call began
C30_Witness ==
    /\ lastCall.op # "none"
    /\ lastCall.errors_before = 2
    /\ lastCall.outcome = "true"
    /\ latestErrors = <<>>

\* C8 as stated: whenever the last conversion returned failure,
\* latest_errors is not empty.
C8_FailureLeavesMessage ==
    lastCall.outcome = "false" => latestErrors # <<>>

\* C9 as stated: an exception reaches the caller of a conversion only when
\* the failure comes from the build.
C9_OnlyBuildRaises ==
    lastCall.outcome = "raised" => lastCall.origin = "build"

\* C10: when csv_folder_to_xml was called on a folder with validation of
\* the tables requested and the validation returned at least one
\* error-level issue, the call returned failure, latest_errors holds the
\* text of exactly the error-level issues in their order, the build was
\* not invoked, and the XML output was not written: the output path is as
\* it was before the call.
C10_ValidationErrorsAbort ==
    ( /\ lastCall.op = "csv_folder_to_xml"
      /\ lastCall.validate_csv
      /\ lastCall.fs_folder = "dir"
      /\ ~lastCall.validation.raises
      /\ \E k \in 1..Len(lastCall.validation.issues) :
            lastCall.validation.issues[k].level = ERROR )
    => /\ lastCall.outcome = "false"
       /\ latestErrors = IssueStrs(SelectSeq(lastCall.validation.issues,
                                             LAMBDA i : i.level = ERROR))
       /\ ~lastCall.build_invoked
       /\ ~lastCall.xml_written
       /\ fsXmlOut = lastCall.fs_xml

\* a call with validation requested on a folder whose tables have an error
\* and a warning, with no XML output on disk before or after
C10_Witness ==
    /\ lastCall.op = "csv_folder_to_xml"
    /\ lastCall.validate_csv
    /\ lastCall.fs_folder = "dir"
    /\ lastCall.validation.issues = <<ConvIssueE1, ConvIssueW>>
    /\ lastCall.outcome = "false"
    /\ Len(latestErrors) = 1
    /\ Len(latestWarnings) = 1
    /\ fsXmlOut = "absent"

\* C11: when csv_folder_to_xml validated its output and the validator
\* returned a verdict that is not valid, the call returned failure,
\* latest_errors holds exactly the returned messages, the schema errors
\* tagged "Schema" followed by the ruleset errors tagged "Ruleset", and the
\* XML output the call wrote is on disk.
C11_OutputErrorsTaggedFileKept ==
    ( /\ lastCall.op = "csv_folder_to_xml"
      /\ lastCall.validate_output
      /\ lastCall.xml_written
      /\ ~lastCall.output.raises
      /\ ~lastCall.output.is_valid )
    => LET se == lastCall.output.schema_errors
           re == lastCall.output.ruleset_errors
       IN  /\ lastCall.outcome = "false"
           /\ Len(latestErrors) = Len(se) + Len(re)
           /\ \A k \in 1..Len(se) :
                 latestErrors[k] = [kind |-> "schema", text |-> se[k]]
           /\ \A k \in 1..Len(re) :
                 latestErrors[Len(se) + k] = [kind |-> "ruleset", text |-> re[k]]
           /\ fsXmlOut = "present"

\* a call whose output has two schema errors and one ruleset error, on an
\* output path at which nothing was before the call
C11_Witness ==
    /\ lastCall.op = "csv_folder_to_xml"
    /\ lastCall.validate_output
    /\ lastCall.fs_xml = "absent"
    /\ Len(lastCall.output.schema_errors) = 2
    /\ Len(lastCall.output.ruleset_errors) = 1
    /\ lastCall.outcome = "false"
    /\ Len(latestErrors) = 3
    /\ fsXmlOut = "present"

(***************************************************************************)
(* Specification SpecFolder: files are put into the csv_folder directory,  *)
(* then the two conversions are called on it, any number of times and in   *)
(* any order.  The lines of the files are complete, and the generated      *)
(* document can be saved.                                                  *)
(***************************************************************************)
OrgTransactionsCsv == <<"O", "R", "G", "-", "t", "r", "a", "n", "s", "a", "c", "t", "i", "o", "n", "s", ".", "c", "s", "v">>

NotesTxt == <<"n", "o", "t", "e", "s", ".", "t", "x", "t">>

FolderActivityLine == << <<"A">>, <<"T">>, <<>>, <<"1">>, <<"e", "n">>, <<>> >>

FolderTransactionLine(aid) == << aid, <<"r">>, <<"2">>, <<>> >>

\* the files that can be put into the folder: <<name, header, lines>>
FolderInputs ==
    { <<ActivitiesCsv, csv_files[1].columns, l>> :
        l \in { <<>>, <<FolderActivityLine>>, <<FolderActivityLine, FolderActivityLine>> } }
    \cup { <<n, csv_files[3].columns, <<FolderTransactionLine(a)>> >> :
             n \in {TransactionsCsv, OrgTransactionsCsv}, a \in { <<"A">>, <<"B">> } }
    \cup { <<TransactionSectorsCsv, csv_files[4].columns,
             << << <<"A">>, <<"r">>, <<"2">>, <<"y">>, <<"2">> >> >> >>,
           <<NotesTxt, <<>>, <<>> >> }

\* the documents given to xml_to_csv_folder
FolderDocs ==
    { <<>>,
      << [ ident |-> <<"A">>, humanitarian |-> NoneVal, lang |-> NoneVal,
           title |-> << [text |-> <<"T">>, lang |-> NoneVal] >>,
           reporting_org |-> [secondary_reporter |-> NoneVal],
           transactions |-> << [ref |-> <<"r">>, type |-> <<"2">>,
                                humanitarian |-> NoneVal, sectors |-> <<>>] >> ] >> }

InitFolder ==
    /\ fsCsvFolder \in {"absent", "dir"}
    /\ fsXmlOut = "absent"
    /\ latestErrors = <<>>
    /\ latestWarnings = <<>>
    /\ lastCall = NoCall
    /\ folderFiles = NoFiles
    /\ ResultIdle
    /\ CrossIdle
    /\ RowsIdle
    /\ PipeIdle
    /\ EnumIdle

PutFile(name, header, lines) ==
    /\ lastCall.op = "none"
    /\ fsCsvFolder = "dir"
    /\ name \notin DOMAIN folderFiles
    /\ Cardinality(DOMAIN folderFiles) < MaxFolderFiles
    /\ folderFiles' = (name :> [exists |-> TRUE, header |-> header, lines |-> lines,
                                fresh |-> FALSE]) @@ folderFiles
    /\ UNCHANGED <<fsCsvFolder, fsXmlOut, latestErrors, latestWarnings, lastCall, pipeVars>>

FolderXmlToCsv(xml_input, doc, overwrite) ==
    LET r == xml_to_csv_folder(fsCsvFolder, xml_input, overwrite, "ok")
        cleaned == clean_folder(folderFiles, fsCsvFolder, overwrite)
    IN  /\ latestErrors' = reset_latest(latestErrors) \o r.latest_errors
        /\ latestWarnings' = reset_latest(latestWarnings) \o r.latest_warnings
        /\ fsCsvFolder' = r.fs_folder
        /\ folderFiles' = IF r.outcome = "true"
                          THEN write_tables(cleaned, ExtractAll(doc, Len(doc)))
                          ELSE cleaned
        /\ lastCall' = [ op |-> "xml_to_csv_folder", fs_folder |-> fsCsvFolder,
                         fs_xml |-> fsXmlOut, overwrite |-> overwrite,
                         files_before |-> Cardinality(DOMAIN folderFiles),
                         errors_before |-> Len(latestErrors),
                         validate_csv |-> FALSE, validate_output |-> FALSE,
                         validation |-> NoValidation, output |-> NoOutput,
                         outcome |-> r.outcome, origin |-> r.origin,
                         build_invoked |-> r.build_invoked, xml_written |-> r.xml_written ]
        /\ UNCHANGED <<fsXmlOut, pipeVars>>

FolderCsvToXml(validate_output, validate_csv, output) ==
    LET env == [ validation |-> [raises |-> FALSE,
                                 issues |-> validate_folder_files(folderFiles)],
                 build |-> "ok", save |-> "ok", output |-> output ]
        r == csv_folder_to_xml(fsCsvFolder, validate_output, validate_csv, env)
        activities == build_activities_from_collections(read_tables(folderFiles))
    IN  /\ latestErrors' = reset_latest(latestErrors) \o r.latest_errors
        /\ latestWarnings' = reset_latest(latestWarnings) \o r.latest_warnings
        /\ fsXmlOut' = IF r.xml_written THEN "present" ELSE fsXmlOut
        /\ built' = IF r.build_invoked THEN activities ELSE built
        /\ outDoc' = IF r.xml_written THEN generate_iati_activities_xml(activities)
                     ELSE outDoc
        /\ lastCall' = [ op |-> "csv_folder_to_xml", fs_folder |-> fsCsvFolder,
                         fs_xml |-> fsXmlOut, overwrite |-> FALSE,
                         files_before |-> Cardinality(DOMAIN folderFiles),
                         errors_before |-> Len(latestErrors),
                         validate_csv |-> validate_csv,
                         validate_output |-> validate_output,
                         validation |-> IF validate_csv THEN env.validation ELSE NoValidation,
                         output |-> IF validate_output /\ r.xml_written THEN output
                                    ELSE NoOutput,
                         outcome |-> r.outcome, origin |-> r.origin,
                         build_invoked |-> r.build_invoked, xml_written |-> r.xml_written ]
        /\ UNCHANGED <<fsCsvFolder, folderFiles, xmlDoc, tables, pipePhase>>

NextFolder ==
    /\ \/ \E f \in FolderInputs : PutFile(f[1], f[2], f[3])
       \/ \E xml_input \in {"wellformed", "malformed"}, doc \in FolderDocs,
             overwrite \in BOOLEAN : FolderXmlToCsv(xml_input, doc, overwrite)
       \/ \E validate_output \in BOOLEAN, validate_csv \in BOOLEAN,
             output \in {NoOutput, [NoOutput EXCEPT !.is_valid = FALSE,
                                                    !.schema_errors = << <<"s">> >>]} :
             FolderCsvToXml(validate_output, validate_csv, output)
    /\ UNCHANGED <<resultVars, crossVars, rowsVars, enumVars>>

SpecFolder == InitFolder /\ [][NextFolder]_vars

\* C12 as stated: a call of csv_folder_to_xml on a folder without the file
\* activities.csv returns failure, with and without validation of the
\* tables; and when a call on a folder with activities.csv returns failure
\* after the validation of the tables, no error of the validation is a
\* missing file.
C12_MissingActivitiesFails ==
    ( lastCall.op = "csv_folder_to_xml" /\ lastCall.fs_folder = "dir" )
    => /\ ActivitiesCsv \notin DOMAIN folderFiles => lastCall.outcome = "false"
       /\ ( ActivitiesCsv \in DOMAIN folderFiles /\ lastCall.origin = "validation" )
          => \A k \in 1..Len(lastCall.validation.issues) :
                lastCall.validation.issues[k].code # MISSING_FILE

\* C13 as stated: when transactions.csv is absent and ORG-transactions.csv
\* is in the folder, a call with validation of the tables reports a row of
\* ORG-transactions.csv whose activity is not in activities.csv as an
\* orphan, and the document a successful call generates has, for every row
\* of ORG-transactions.csv of an activity of activities.csv, a transaction
\* of that activity with the row's ref.
C13_PrefixedFileValidatedAndBuilt ==
    ( /\ lastCall.op = "csv_folder_to_xml"
      /\ lastCall.fs_folder = "dir"
      /\ ActivitiesCsv \in DOMAIN folderFiles
      /\ folderFiles[ActivitiesCsv].lines # <<>>
      /\ TransactionsCsv \notin DOMAIN folderFiles
      /\ OrgTransactionsCsv \in DOMAIN folderFiles )
    => LET rows == read_csv(folderFiles[OrgTransactionsCsv])
           aids == {folderFiles[ActivitiesCsv].lines[k][1] :
                       k \in 1..Len(folderFiles[ActivitiesCsv].lines)}
       IN  /\ lastCall.validate_csv =>
                \A k \in 1..Len(rows) :
                    rows[k].activity_identifier \notin aids
                    => \E i \in 1..Len(lastCall.validation.issues) :
                          /\ lastCall.validation.issues[i].code = ORPHAN_REFERENCE
                          /\ lastCall.validation.issues[i].value = rows[k].activity_identifier
           /\ lastCall.outcome = "true" =>
                \A k \in 1..Len(rows) :
                    rows[k].activity_identifier \in aids
                    => \E a \in 1..Len(outDoc) :
                          /\ outDoc[a].ident = rows[k].activity_identifier
                          /\ \E t \in 1..Len(outDoc[a].transactions) :
                                outDoc[a].transactions[t].ref = rows[k].transaction_ref

\* C26 as stated: when the validation of a call reports the folder valid,
\* every row of the child tables the build reads carries an
\* activity_identifier of a row of the activities table.
C26_ValidFolderDropsNoRow ==
    ( /\ lastCall.op = "csv_folder_to_xml"
      /\ lastCall.fs_folder = "dir"
      /\ lastCall.validate_csv
      /\ is_valid(lastCall.validation.issues) )
    => LET data_collections == read_tables(folderFiles)
           aids == { data_collections["activities"][k].activity_identifier :
                       k \in 1..Len(data_collections["activities"]) }
       IN  \A key \in {"transactions", "transaction_sectors"} :
               \A k \in 1..Len(data_collections[key]) :
                   data_collections[key][k].activity_identifier \in aids

\* C28 as stated: a call with validation of the tables on a folder whose
\* activities table has two rows with the same activity_identifier gets a
\* validation error, and after a successful call on a folder reported
\* valid the build has given one activity per activities row.
C28_DuplicateActivitiesReported ==
    ( /\ lastCall.op = "csv_folder_to_xml"
      /\ lastCall.fs_folder = "dir"
      /\ lastCall.validate_csv
      /\ ActivitiesCsv \in DOMAIN folderFiles )
    => LET rows == read_csv(folderFiles[ActivitiesCsv])
       IN  /\ ( \E i, j \in 1..Len(rows) :
                   i # j /\ rows[i].activity_identifier = rows[j].activity_identifier )
               => ~is_valid(lastCall.validation.issues)
           /\ ( is_valid(lastCall.validation.issues) /\ lastCall.outcome = "true" )
               => Len(built) = Len(rows)

\* the tables of csv_files of which f is the file: f has the table's file
\* name
TablesOfFile(f) == {csv_files[k].key : k \in {j \in 1..Len(csv_files) : csv_files[j].filename = f}}

\* C29 as stated: in a validation of a folder, a table whose file name is
\* not in the folder is bound to no file that has the file name of another
\* table, and no issue of the validation reports for the file of another
\* table a column of the table that is missing in it.
C29_FallbackBindsOwnTable ==
    ( /\ lastCall.op = "csv_folder_to_xml"
      /\ lastCall.fs_folder = "dir"
      /\ lastCall.validate_csv
      /\ ActivitiesCsv \in DOMAIN folderFiles )
    => \A k \in 1..Len(csv_files) :
          csv_files[k].filename \notin DOMAIN folderFiles
          => \A f \in TablePath(folderFiles, csv_files[k]) :
                /\ TablesOfFile(f) \subseteq {csv_files[k].key}
                /\ \A i \in 1..Len(lastCall.validation.issues) :
                      LET issue == lastCall.validation.issues[i]
                      IN  ( issue.file_name = f /\ issue.code = MISSING_COLUMN )
                          => TablesOfFile(f) = {}

\* C20: after a call of xml_to_csv_folder with overwrite=True on an
\* existing folder that returned success, every file in the folder was
\* written by that call.
C20_OverwriteLeavesOnlyWrittenFiles ==
    ( /\ lastCall.op = "xml_to_csv_folder"
      /\ lastCall.overwrite
      /\ lastCall.fs_folder = "dir"
      /\ lastCall.outcome = "true" )
    => \A f \in DOMAIN folderFiles : folderFiles[f].fresh

\* a successful call with overwrite=True on a folder that held three files
C20_Witness ==
    /\ lastCall.op = "xml_to_csv_folder"
    /\ lastCall.overwrite
    /\ lastCall.fs_folder = "dir"
    /\ lastCall.files_before = 3
    /\ lastCall.outcome = "true"
    /\ NotesTxt \notin DOMAIN folderFiles
    /\ ActivitiesCsv \in DOMAIN folderFiles

(***************************************************************************)
(* C7: after any sequence of issue additions and merges, is_valid is false *)
(* if and only if an error-level issue was put into the result; warnings   *)
(* alone never make it invalid.                                            *)
(***************************************************************************)
C7_IsValidIffNoError ==
    /\ is_valid(resIssues) <=> ~resHadError
    /\ (~is_valid(resIssues)) <=> (errors(resIssues) # <<>>)

\* a result that holds a merged-in warning and an error
C7_Witness ==
    /\ resMerged
    /\ warnings(resIssues) # <<>>
    /\ ~is_valid(resIssues)

=============================================================================
